---- MODULE Spec2Model ----
(***************************************************************************)
(* Transactional storage core of erdb: the transaction manager with its   *)
(* bit-packed status log (src/src/concurrency/mod.rs), the MVCC           *)
(* visibility predicate, and the versioned heap table                     *)
(* (src/src/storage/heap/table.rs).  Threads are the processes; every     *)
(* action is one atomic step of a thread between two points where other   *)
(* threads can interleave (a lock acquisition or release).                *)
(***************************************************************************)
EXTENDS Integers, Sequences, FiniteSets, TLC

(* ---------------------------- bounds ---------------------------------- *)
\* last transaction id handed out (the code stops at u32::MAX)
MaxTid == 3
\* the same for the writers workload
WritersMaxTid == 4
\* last command id the model lets refresh_transaction reach (the code: 255)
MaxCmd == 1
\* bytes of one page of the transaction log in the model (PAGE_SIZE scaled)
PageSize == 1
\* tuple versions that fit into one heap page
PageCap == 2
\* tuple versions the heap may hold
MaxVersions == 2
\* the same for the writers workload
WritersMaxVersions == 2
\* last transaction id and versions of the heap in the snapshots workload
SnapshotsMaxTid == 4
SnapshotsMaxVersions == 1
\* last transaction id and versions of the heap in the log workload
LogMaxTid == 7
LogMaxVersions == 1
\* last transaction id and versions of the heap in the waiters workload
WaitersMaxTid == 5
WaitersMaxVersions == 1
HandlesMaxTid == 3
HandlesMaxVersions == 1
\* last transaction id and versions of the heap in the sizes workload
SizesMaxTid == 3
SizesMaxVersions == 3
\* last transaction id in the statements workload
ScansMaxTid == 4
ScansMaxVersions == 2
BootstrapMaxTid == 3
BootstrapMaxVersions == 2
QueueMaxTid == 5
MaxQueuePages == 1
RestartMaxTid == 7
FailuresMaxTid == 3
FailuresMaxVersions == 1
StatementsMaxTid == 4
\* bytes of a log page and last transaction id in the reload workload
ReloadPageSize == 2
ReloadMaxTid == 7

\* the threads (one client connection each)
Procs == {1, 2, 3}
\* the threads that run in the workloads of two clients
Clients == {1, 2}

(* ------------------------ program constants --------------------------- *)
INVALID_TRANSACTION_ID == 0
BOOTSTRAP_TRANSACTION_ID == 1
INVALID_PAGE_NO == 0
\* TransactionManager::new: next_tid starts at 2
FirstTid == 2
\* u8::MAX, the last command id
U8Max == 255
\* u32::MAX, scaled down: transaction ids are 4 bits wide in the model
U32Max == 15
\* enum TransactionStatus, with its two-bit encoding
Invalid == 0
InProgress == 1
Aborted == 2
Committed == 3

VARIABLES
    page_size,    \* PAGE_SIZE of the build, in bytes of a log page
    next_tid,     \* TransactionManager.next_tid
    alive_tids,   \* TransactionManager.alive_tids
    tid_locks,    \* lock manager: tids whose exclusive self-lock is held
    tuple_locks,  \* lock manager: tuple id -> thread holding its exclusive lock
    log,          \* pages of the transaction log table, page n at log[n]
    heap,         \* pages of the heap table, page n at heap[n]
    txn,          \* per thread: its Transaction handle
    pc,           \* per thread: where it is
    call,         \* per thread: locals of the call in progress
    returned,     \* what the step just taken returned, when it ended a heap call
    committed_ok, \* history: tids for which commit() has returned Ok
    aborted_ok,   \* history: tids for which abort() has returned Ok
    hist,         \* history, per thread: what had happened when it started
                  \* and when it last took a new snapshot
    ok_writers,   \* history: <<version, tid>> for every update/delete that got Ok
    dirty,        \* buffer manager: the pages marked dirty and not yet flushed
    codec         \* a heap tuple header on its way through serialize and
                  \* from_bytes

vars == <<page_size, next_tid, alive_tids, tid_locks, tuple_locks, log, heap, txn, pc,
          call, returned, committed_ok, aborted_ok, hist, ok_writers, dirty, codec>>

(* ----------------------- the transaction log -------------------------- *)
ZeroPage == [i \in 0..(page_size - 1) |-> 0]

RECURSIVE Pow2(_)
Pow2(n) == IF n = 0 THEN 1 ELSE 2 * Pow2(n - 1)

\* a | b on bytes
RECURSIVE BitOr(_, _)
BitOr(a, b) ==
    IF a = 0 THEN b
    ELSE IF b = 0 THEN a
    ELSE (IF a % 2 = 1 \/ b % 2 = 1 THEN 1 ELSE 0) + 2 * BitOr(a \div 2, b \div 2)

\* get_page: the page on which the status of tid is stored
PageOf(tid) == ((tid \div 4) \div page_size) + 1
\* page_pos and byte_pos of get_transaction_status / change_transaction_status
PagePos(tid) == (tid \div 4) % page_size
BytePos(tid) == (tid % 4) * 2

\* (byte >> byte_pos) & 0b11
StatusBits(byte, tid) == (byte \div Pow2(BytePos(tid))) % 4
\* byte | ((new_status as u8) << byte_pos), in a u8
OrStatus(byte, tid, new_status) ==
    BitOr(byte, (new_status * Pow2(BytePos(tid))) % 256)

\* buffer_manager.highest_page_no(TRANSACTION_LOG_TABLE_ID)
HighestLogPage == Len(log)

\* get_page allocates one new page when the highest page is below tid's page
GetPageAllocates(tid, highest) == highest < PageOf(tid)

\* get_transaction_status, evaluated on the current state with `highest`
\* pages allocated: a freshly allocated page reads as zero bytes
StatusWith(tid, highest) ==
    IF tid \in alive_tids THEN InProgress
    ELSE IF tid >= next_tid THEN Invalid
    ELSE IF GetPageAllocates(tid, highest) THEN StatusBits(0, tid)
    ELSE IF PageOf(tid) <= Len(log)
         THEN StatusBits(log[PageOf(tid)][PagePos(tid)], tid)
         ELSE StatusBits(0, tid)

get_transaction_status(tid) == StatusWith(tid, HighestLogPage)

\* highest log page after get_transaction_status(tid) was called with
\* `highest` pages allocated (the call allocates a page as a side effect)
HighestAfterStatus(tid, highest) ==
    IF tid \notin alive_tids /\ tid < next_tid /\ GetPageAllocates(tid, highest)
    THEN highest + 1
    ELSE highest

\* the log extended with zero pages up to `highest`
LogGrownTo(highest) ==
    [n \in 1..(IF highest > Len(log) THEN highest ELSE Len(log)) |->
        IF n <= Len(log) THEN log[n] ELSE ZeroPage]

(* ------------------------ heap tuple header --------------------------- *)
\* common::MAX_COLUMNS is u8::MAX; scaled to 15, which like 255 leaves the
\* remainder 7 when divided by 8
MAX_COLUMNS == 15
MAX_NULL_BITS_SIZE == MAX_COLUMNS \div 8
HAS_NULL_FLAG == 1
CONSTANT_SIZE == 16

has_null(flags) == flags % 2 = HAS_NULL_FLAG

\* size in bytes of the null bitmap
null_bitmap_size(column_count) == ((column_count - 1) \div 8) + 1

\* the byte with the bits of the columns of `nulls` that fall into byte i
RECURSIVE NullByte(_, _)
NullByte(nulls, i) ==
    IF nulls = {} THEN 0
    ELSE LET column == CHOOSE c \in nulls : TRUE
         IN  (IF column \div 8 = i THEN Pow2(column % 8) ELSE 0)
                 + NullByte(nulls \ {column}, i)

NoHeader == [insert_tid |-> 0, delete_tid |-> 0, command_id |-> 0,
             tuple_id |-> <<0, 0>>, flags |-> 0, user_data_start |-> 0,
             null_bitmap |-> [i \in 1..MAX_NULL_BITS_SIZE |-> 0],
             column_count |-> 0]

\* Serializer::serialize_u32 / Deserializer::deserialize_u32
U32Bytes(v) == <<v % 256, (v \div 256) % 256, (v \div 65536) % 256,
                (v \div 16777216) % 256>>
U32At(bytes, i) ==
    bytes[i] + 256 * bytes[i + 1] + 65536 * bytes[i + 2] + 16777216 * bytes[i + 3]

\* HeapTupleHeader::new_tuple for a tuple of column_count values of which
\* the columns in `nulls` are NULL; ok is FALSE when the index into
\* null_bitmap is out of bounds (the call panics)
HeaderOfTuple(column_count, nulls, insert_tid, command_id, tuple_id) ==
    LET flags == IF nulls # {} THEN HAS_NULL_FLAG ELSE 0
    IN  IF \E column \in nulls : column \div 8 >= MAX_NULL_BITS_SIZE
        THEN [ok |-> FALSE, header |-> NoHeader]
        ELSE [ok |-> TRUE,
              header |->
                [insert_tid |-> insert_tid, delete_tid |-> INVALID_TRANSACTION_ID,
                 command_id |-> command_id, tuple_id |-> tuple_id,
                 flags |-> flags,
                 user_data_start |->
                     IF has_null(flags)
                     THEN CONSTANT_SIZE + null_bitmap_size(column_count)
                     ELSE CONSTANT_SIZE,
                 null_bitmap |-> [i \in 1..MAX_NULL_BITS_SIZE |->
                                    NullByte(nulls, i - 1)],
                 column_count |-> column_count]]

\* HeapTupleHeader::serialize; ok is FALSE when the slice
\* null_bitmap[..null_bitmap_size(column_count)] is out of range
serialize(h) ==
    LET fixed == U32Bytes(h.insert_tid) \o U32Bytes(h.delete_tid)
                   \o <<h.command_id>>
                   \o U32Bytes(h.tuple_id[1]) \o <<h.tuple_id[2]>>
                   \o <<h.flags, h.user_data_start>>
        n == null_bitmap_size(h.column_count)
    IN  IF ~has_null(h.flags) THEN [ok |-> TRUE, bytes |-> fixed]
        ELSE IF n > MAX_NULL_BITS_SIZE THEN [ok |-> FALSE, bytes |-> <<>>]
        ELSE [ok |-> TRUE, bytes |-> fixed \o SubSeq(h.null_bitmap, 1, n)]

\* HeapTupleHeader::from_bytes; ok is FALSE when copy_bytes is asked for
\* more bytes than null_bitmap holds
from_bytes(bytes, column_count) ==
    LET flags == bytes[15]
        n == null_bitmap_size(column_count)
    IN  IF has_null(flags) /\ n > MAX_NULL_BITS_SIZE
        THEN [ok |-> FALSE, header |-> NoHeader]
        ELSE [ok |-> TRUE,
              header |->
                [insert_tid |-> U32At(bytes, 1), delete_tid |-> U32At(bytes, 5),
                 command_id |-> bytes[9],
                 tuple_id |-> <<U32At(bytes, 10), bytes[14]>>,
                 flags |-> flags, user_data_start |-> bytes[16],
                 null_bitmap |-> [i \in 1..MAX_NULL_BITS_SIZE |->
                                    IF has_null(flags) /\ i <= n
                                    THEN bytes[16 + i] ELSE 0],
                 column_count |-> column_count]]

NoCodec == [stage |-> "none", header |-> NoHeader, bytes |-> <<>>,
            parsed |-> NoHeader, again |-> <<>>]

\* the rest of the state, which the header calls do not touch
Untouched == <<page_size, next_tid, alive_tids, tid_locks, tuple_locks, log, heap, txn, pc,
               call, returned, committed_ok, aborted_ok, hist, ok_writers, dirty>>

(* header.serialize(buffer) on a header built by new_tuple *)
SerializeHeader ==
    /\ codec.stage = "header"
    /\ LET r == serialize(codec.header)
       IN  codec' = IF r.ok THEN [codec EXCEPT !.stage = "serialized", !.bytes = r.bytes]
                    ELSE [codec EXCEPT !.stage = "panicked"]
    /\ UNCHANGED Untouched

(* parse_heap_tuple_header: HeapTupleHeader::from_bytes on the bytes written *)
ParseHeader ==
    /\ codec.stage = "serialized"
    /\ LET r == from_bytes(codec.bytes, codec.header.column_count)
       IN  codec' = IF r.ok THEN [codec EXCEPT !.stage = "parsed", !.parsed = r.header]
                    ELSE [codec EXCEPT !.stage = "panicked"]
    /\ UNCHANGED Untouched

(* header.serialize(buffer) on the parsed header, as update_tuple and
   delete_tuple do after changing it *)
SerializeParsed ==
    /\ codec.stage = "parsed"
    /\ LET r == serialize(codec.parsed)
       IN  codec' = IF r.ok THEN [codec EXCEPT !.stage = "again", !.again = r.bytes]
                    ELSE [codec EXCEPT !.stage = "panicked"]
    /\ UNCHANGED Untouched

(* ----------------------- transaction handles -------------------------- *)
NoTxn == [tid |-> INVALID_TRANSACTION_ID, isolation_level |-> "ReadCommitted",
          tid_max |-> 0, command_id |-> 0, end |-> "None", alive_tids |-> {}]

NoCall == [kind |-> "none", target |-> <<0, 0>>, size |-> 0, tuple_lock |-> FALSE,
           wait |-> INVALID_TRANSACTION_ID, highest |-> INVALID_PAGE_NO,
           new_status |-> Invalid,
           \* HeapTupleIterator
           curr_page_no |-> INVALID_PAGE_NO, max_page_no |-> INVALID_PAGE_NO,
           curr_slot |-> 0,
           \* history of the iterator: the versions stored when it was
           \* created, the slots it has looked at, the tuples it has yielded
           at_open |-> {}, examined |-> <<>>, yielded |-> <<>>]

NoReturn == [proc |-> 0, kind |-> "None", id |-> <<0, 0>>]

NoHist == [before |-> {}, active |-> {}, refreshed |-> {}]

Init ==
    /\ page_size = PageSize
    /\ next_tid = FirstTid
    /\ alive_tids = {}
    /\ tid_locks = {}
    /\ tuple_locks = {}
    /\ log = <<>>
    /\ heap = <<>>
    /\ txn = [p \in Procs |-> NoTxn]
    /\ pc = [p \in Procs |-> "none"]
    /\ call = [p \in Procs |-> NoCall]
    /\ returned = NoReturn
    /\ committed_ok = {}
    /\ aborted_ok = {}
    /\ hist = [p \in Procs |-> NoHist]
    /\ ok_writers = {}
    /\ dirty = {}
    /\ codec = NoCodec

\* tids handed out so far
Allocated == FirstTid..(next_tid - 1)

\* tids whose transaction has entered commit() or abort()
Ending ==
    {txn[q].tid : q \in {r \in Procs : pc[r] \in {"ending1", "ending2", "ending3"}}}
        \cup committed_ok \cup aborted_ok

\* create_transaction whose fetch_update adds 1 without the check against
\* u32::MAX, so that next_tid wraps
StartAllocWrapping(p, isolation) ==
    /\ pc[p] = "none"
    /\ txn' = [txn EXCEPT ![p] =
                 [tid |-> next_tid, isolation_level |-> isolation,
                  tid_max |-> (next_tid + 1) % (U32Max + 1), command_id |-> 0,
                  end |-> "None", alive_tids |-> {}]]
    /\ next_tid' = (next_tid + 1) % (U32Max + 1)
    /\ pc' = [pc EXCEPT ![p] = "starting"]
    /\ hist' = [hist EXCEPT ![p] = [before |-> committed_ok, active |-> {},
                                    refreshed |-> {}]]
    /\ returned' = NoReturn
    /\ UNCHANGED <<codec, page_size, dirty, alive_tids, tid_locks, tuple_locks, log, heap, call, committed_ok, aborted_ok, ok_writers>>

(* create_transaction, first half: next_tid.fetch_update, which fails at
   u32::MAX (the call then returns Err); tid_max = tid.wrapping_add(1) *)
StartAlloc(p, isolation) ==
    /\ pc[p] = "none"
    /\ IF next_tid = U32Max
       THEN /\ returned' = [proc |-> p, kind |-> "Err", id |-> <<0, 0>>]
            /\ UNCHANGED <<txn, next_tid, pc, hist>>
       ELSE /\ txn' = [txn EXCEPT ![p] =
                         [tid |-> next_tid, isolation_level |-> isolation,
                          tid_max |-> (next_tid + 1) % (U32Max + 1),
                          command_id |-> 0,
                          end |-> "None", alive_tids |-> {}]]
            /\ next_tid' = next_tid + 1
            /\ pc' = [pc EXCEPT ![p] = "starting"]
            /\ hist' = [hist EXCEPT ![p] = [before |-> committed_ok,
                                            active |-> {}, refreshed |-> {}]]
            /\ returned' = NoReturn
    /\ UNCHANGED <<codec, page_size, dirty, alive_tids, tid_locks, tuple_locks, log, heap, call, committed_ok, aborted_ok, ok_writers>>

(* create_transaction, second half, under the write lock of alive_tids:
   insert the tid, register its self-lock, clone the set into the handle *)
StartInsert(p) ==
    /\ pc[p] = "starting"
    /\ alive_tids' = alive_tids \cup {txn[p].tid}
    /\ tid_locks' = tid_locks \cup {txn[p].tid}
    /\ txn' = [txn EXCEPT ![p].alive_tids = alive_tids']
    /\ pc' = [pc EXCEPT ![p] = "idle"]
    /\ hist' = [hist EXCEPT ![p].active = (Allocated \ Ending) \ {txn[p].tid}]
    /\ returned' = NoReturn
    /\ UNCHANGED <<codec, page_size, dirty, next_tid, tuple_locks, log, heap, call, committed_ok, aborted_ok, ok_writers>>

(* TransactionManager::bootstrap: the handle of tid 1, with tid_max
   u32::MAX and an empty snapshot; only the self-lock is registered *)
bootstrap(p) ==
    /\ pc[p] = "none"
    /\ BOOTSTRAP_TRANSACTION_ID \notin tid_locks
    /\ txn' = [txn EXCEPT ![p] =
                 [tid |-> BOOTSTRAP_TRANSACTION_ID,
                  isolation_level |-> "ReadCommitted",
                  tid_max |-> U32Max, command_id |-> 0,
                  end |-> "None", alive_tids |-> {}]]
    /\ tid_locks' = tid_locks \cup {BOOTSTRAP_TRANSACTION_ID}
    /\ pc' = [pc EXCEPT ![p] = "idle"]
    /\ hist' = [hist EXCEPT ![p] = [before |-> committed_ok,
                                    active |-> {}, refreshed |-> {}]]
    /\ returned' = NoReturn
    /\ UNCHANGED <<codec, page_size, dirty, next_tid, alive_tids, tuple_locks, log, heap, call,
                   committed_ok, aborted_ok, ok_writers>>

\* refresh_transaction that takes a new snapshot whatever the isolation level
RefreshAnyLevel(p) ==
    /\ pc[p] = "idle"
    /\ txn[p].command_id # U8Max
    /\ txn' = [txn EXCEPT ![p] = [@ EXCEPT !.command_id = @ + 1,
                                           !.alive_tids = alive_tids,
                                           !.tid_max = next_tid]]
    /\ hist' = [hist EXCEPT ![p].refreshed = committed_ok]
    /\ returned' = NoReturn
    /\ UNCHANGED <<codec, page_size, dirty, next_tid, alive_tids, tid_locks, tuple_locks, log, heap, pc,
                   call, committed_ok, aborted_ok, ok_writers>>

\* refresh_transaction without the check against u8::MAX: command_id += 1
\* wraps in a u8
RefreshUnchecked(p) ==
    /\ pc[p] = "idle"
    /\ txn' = [txn EXCEPT ![p] =
                 IF txn[p].isolation_level = "RepeatableRead"
                 THEN [@ EXCEPT !.command_id = (@ + 1) % (U8Max + 1)]
                 ELSE [@ EXCEPT !.command_id = (@ + 1) % (U8Max + 1),
                                !.alive_tids = alive_tids,
                                !.tid_max = next_tid]]
    /\ hist' = [hist EXCEPT ![p].refreshed =
                   IF txn[p].isolation_level = "RepeatableRead" THEN @
                   ELSE committed_ok]
    /\ returned' = NoReturn
    /\ UNCHANGED <<codec, page_size, dirty, next_tid, alive_tids, tid_locks, tuple_locks, log, heap, pc,
                   call, committed_ok, aborted_ok, ok_writers>>

(* refresh_transaction: the Err return at u8::MAX, else the increment and,
   under ReadCommitted, the new snapshot *)
Refresh(p) ==
    /\ pc[p] = "idle"
    /\ IF txn[p].command_id = U8Max
       THEN /\ returned' = [proc |-> p, kind |-> "Err", id |-> <<0, 0>>]
            /\ UNCHANGED <<txn, hist>>
       ELSE /\ txn' = [txn EXCEPT ![p] =
                         IF txn[p].isolation_level = "RepeatableRead"
                         THEN [@ EXCEPT !.command_id = @ + 1]
                         ELSE [@ EXCEPT !.command_id = @ + 1,
                                        !.alive_tids = alive_tids,
                                        !.tid_max = next_tid]]
            /\ hist' = [hist EXCEPT ![p].refreshed =
                           IF txn[p].isolation_level = "RepeatableRead" THEN @
                           ELSE committed_ok]
            /\ returned' = NoReturn
    /\ UNCHANGED <<codec, page_size, dirty, next_tid, alive_tids, tid_locks, tuple_locks, log, heap, pc,
                   call, committed_ok, aborted_ok, ok_writers>>

\* Transaction::expect_rollback: sets the end state, whatever it was
expect_rollback(p) ==
    /\ pc[p] \in {"idle", "ended"}
    /\ txn' = [txn EXCEPT ![p].end = "ExpectedRollback"]
    /\ returned' = NoReturn
    /\ UNCHANGED <<codec, page_size, dirty, next_tid, alive_tids, tid_locks, tuple_locks, log, heap, pc,
                   call, committed_ok, aborted_ok, hist, ok_writers>>

\* the end states from which commit() / abort() goes on to the manager
EndAllowed(new_status) ==
    IF new_status = Committed THEN {"None"} ELSE {"None", "ExpectedRollback"}

\* commit / abort that go on to the manager whatever the end state is
EndFromAnyState(p, new_status) ==
    /\ pc[p] \in {"idle", "ended"}
    /\ alive_tids' = alive_tids \ {txn[p].tid}
    /\ call' = [call EXCEPT ![p] = [NoCall EXCEPT !.kind = "end",
                                                  !.new_status = new_status]]
    /\ pc' = [pc EXCEPT ![p] = "ending1"]
    /\ returned' = NoReturn
    /\ UNCHANGED <<codec, page_size, dirty, next_tid, tid_locks, tuple_locks, log, heap, txn, committed_ok, aborted_ok, hist, ok_writers>>

\* Transaction::has_ended
has_ended(t) == t.end \in {"Committed", "Aborted"}

(* Transaction::commit / abort: the match on the end state, then either the
   Err return or the call of the manager up to and including
   alive_tids.remove in change_transaction_status *)
BeginEnd(p, new_status) ==
    /\ pc[p] \in {"idle", "ended"}
    /\ IF txn[p].end \in EndAllowed(new_status)
       THEN /\ alive_tids' = alive_tids \ {txn[p].tid}
            /\ call' = [call EXCEPT ![p] = [NoCall EXCEPT !.kind = "end",
                                                  !.new_status = new_status]]
            /\ pc' = [pc EXCEPT ![p] = "ending1"]
            /\ returned' = NoReturn
       ELSE /\ returned' = [proc |-> p, kind |-> "Err", id |-> <<0, 0>>]
            /\ UNCHANGED <<alive_tids, call, pc>>
    /\ UNCHANGED <<codec, page_size, dirty, next_tid, tid_locks, tuple_locks, log, heap, txn, committed_ok, aborted_ok, hist, ok_writers>>

(* get_page inside change_transaction_status: read highest_page_no *)
EndGetPage(p) ==
    /\ pc[p] = "ending1"
    /\ call' = [call EXCEPT ![p].highest = HighestLogPage]
    /\ pc' = [pc EXCEPT ![p] = "ending2"]
    /\ returned' = NoReturn
    /\ UNCHANGED <<codec, page_size, dirty, next_tid, alive_tids, tid_locks, tuple_locks, log, heap, txn,
                   committed_ok, aborted_ok, hist, ok_writers>>

\* the page number get_page hands to change_transaction_status: a newly
\* allocated page (the one after the highest) or the fetched page of tid
PageWritten(tid, seen_highest) ==
    IF seen_highest < PageOf(tid) THEN Len(log) + 1 ELSE PageOf(tid)

\* change_transaction_status that marks the log page dirty and returns
\* without flush_all_buffers
WriteWithoutFlush(p) ==
    /\ pc[p] = "ending2"
    /\ LET tid == txn[p].tid
           n == PageWritten(tid, call[p].highest)
           grown == LogGrownTo(n)
       IN /\ log' = [grown EXCEPT ![n][PagePos(tid)] =
                         OrStatus(@, tid, call[p].new_status)]
          /\ dirty' = dirty \cup {<<"log", n>>}
    /\ pc' = [pc EXCEPT ![p] = "ending3"]
    /\ returned' = NoReturn
    /\ UNCHANGED <<codec, page_size, next_tid, alive_tids, tid_locks, tuple_locks, heap, txn, call,
                   committed_ok, aborted_ok, hist, ok_writers>>

(* get_page, second half (allocate_new_page or fetch), then OR the status
   into the page, mark_dirty and flush_all_buffers, which leaves no buffer
   dirty *)
EndWrite(p) ==
    /\ pc[p] = "ending2"
    /\ LET tid == txn[p].tid
           n == PageWritten(tid, call[p].highest)
           grown == LogGrownTo(n)
       IN log' = [grown EXCEPT ![n][PagePos(tid)] =
                      OrStatus(@, tid, call[p].new_status)]
    /\ dirty' = {}
    /\ pc' = [pc EXCEPT ![p] = "ending3"]
    /\ returned' = NoReturn
    /\ UNCHANGED <<codec, page_size, next_tid, alive_tids, tid_locks, tuple_locks, heap, txn, call,
                   committed_ok, aborted_ok, hist, ok_writers>>

(* change_transaction_status returns Err: get_page fails, or returns None
   because every buffer is pinned; commit() / abort() pass the error on
   without touching end or the lock manager *)
EndGetPageFails(p) ==
    /\ pc[p] \in {"ending1", "ending2"}
    /\ call' = [call EXCEPT ![p] = NoCall]
    /\ pc' = [pc EXCEPT ![p] = "idle"]
    /\ returned' = [proc |-> p, kind |-> "Err", id |-> <<0, 0>>]
    /\ UNCHANGED <<codec, page_size, dirty, next_tid, alive_tids, tid_locks, tuple_locks, log, heap,
                   txn, committed_ok, aborted_ok, hist, ok_writers>>

(* change_transaction_status returns Err from flush_all_buffers: the status
   is in the page, which stays dirty *)
EndFlushFails(p) ==
    /\ pc[p] = "ending2"
    /\ LET tid == txn[p].tid
           n == PageWritten(tid, call[p].highest)
           grown == LogGrownTo(n)
       IN /\ log' = [grown EXCEPT ![n][PagePos(tid)] =
                         OrStatus(@, tid, call[p].new_status)]
          /\ dirty' = dirty \cup {<<"log", n>>}
    /\ call' = [call EXCEPT ![p] = NoCall]
    /\ pc' = [pc EXCEPT ![p] = "idle"]
    /\ returned' = [proc |-> p, kind |-> "Err", id |-> <<0, 0>>]
    /\ UNCHANGED <<codec, page_size, next_tid, alive_tids, tid_locks, tuple_locks, heap, txn,
                   committed_ok, aborted_ok, hist, ok_writers>>

(* back in Transaction::commit / abort: end.set, lock_manager.end_transaction,
   return Ok; the caller then drops the handle at once or keeps it *)
EndRelease(p, keep) ==
    /\ pc[p] = "ending3"
    /\ txn' = [txn EXCEPT ![p] =
                 IF keep
                 THEN [@ EXCEPT !.end = IF call[p].new_status = Committed
                                        THEN "Committed" ELSE "Aborted"]
                 ELSE NoTxn]
    /\ tid_locks' = tid_locks \ {txn[p].tid}
    /\ committed_ok' = IF call[p].new_status = Committed
                       THEN committed_ok \cup {txn[p].tid} ELSE committed_ok
    /\ aborted_ok' = IF call[p].new_status = Aborted
                     THEN aborted_ok \cup {txn[p].tid} ELSE aborted_ok
    /\ call' = [call EXCEPT ![p] = NoCall]
    /\ returned' = NoReturn
    /\ hist' = [hist EXCEPT ![p] = NoHist]
    /\ pc' = [pc EXCEPT ![p] = IF keep THEN "ended" ELSE "none"]
    /\ UNCHANGED <<codec, page_size, dirty, next_tid, alive_tids, tuple_locks, log, heap, ok_writers>>

\* the caller drops a handle it kept after commit() / abort()
DropHandle(p) ==
    /\ pc[p] = "ended"
    /\ txn' = [txn EXCEPT ![p] = NoTxn]
    /\ pc' = [pc EXCEPT ![p] = "none"]
    /\ returned' = NoReturn
    /\ UNCHANGED <<codec, page_size, dirty, next_tid, alive_tids, tid_locks, tuple_locks, log, heap,
                   call, committed_ok, aborted_ok, hist, ok_writers>>

\* the handle of a transaction in progress goes away without commit() or
\* abort() (Transaction has no Drop, the process stops): nothing is written
Abandon(p) ==
    /\ pc[p] = "idle"
    /\ txn' = [txn EXCEPT ![p] = NoTxn]
    /\ pc' = [pc EXCEPT ![p] = "none"]
    /\ hist' = [hist EXCEPT ![p] = NoHist]
    /\ returned' = NoReturn
    /\ UNCHANGED <<codec, page_size, dirty, next_tid, alive_tids, tid_locks, tuple_locks, log, heap,
                   call, committed_ok, aborted_ok, ok_writers>>

\* load_transaction_log: the loop over the bytes of the last log page, from
\* byte `offset` on
RECURSIVE HighestTid(_, _, _, _)
HighestTid(data, offset, tid_offset, highest_tid) ==
    IF offset >= page_size THEN highest_tid
    ELSE LET b == data[offset]
             h == IF b >= 64 THEN offset + tid_offset + 3
                  ELSE IF b >= 16 THEN offset + tid_offset + 2
                  ELSE IF b >= 4 THEN offset + tid_offset + 1
                  ELSE IF b > 0 THEN offset + tid_offset
                  ELSE highest_tid
         IN  HighestTid(data, offset + 1, tid_offset, h)

\* the value load_transaction_log stores in next_tid
load_transaction_log ==
    LET tid_offset == (HighestLogPage - 1) * page_size * 4
    IN  HighestTid(log[HighestLogPage], 0, tid_offset, tid_offset) + 1

(* TransactionManager::new with bootstrap = false over the tables that the
   previous manager left, after every handle was dropped.  With an empty log
   new() returns Err and there is no manager. *)
Reopen ==
    /\ \A p \in Procs : pc[p] = "none"
    /\ HighestLogPage # INVALID_PAGE_NO
    /\ next_tid' = load_transaction_log
    /\ alive_tids' = {}
    /\ tid_locks' = {}
    /\ tuple_locks' = {}
    /\ returned' = [proc |-> 0, kind |-> "Opened", id |-> <<0, 0>>]
    /\ UNCHANGED <<codec, page_size, dirty, log, heap, txn, pc, call, committed_ok,
                   aborted_ok, hist, ok_writers>>

(* --------------------------- the heap table --------------------------- *)
\* physical (page_no, slot) of every tuple version stored in the heap
Ids == {id \in (1..Len(heap)) \X (0..(PageCap - 1)) : id[2] < Len(heap[id[1]])}

\* required_free_space of the tuples the workloads pass, in units of which
\* a heap page holds PageCap (slot entry included): small inserted tuples,
\* small or page-filling updated tuples
InsertSizes == {1}
UpdateSizes == {1, PageCap}

\* MAX_TUPLE_SIZE in the same units: the tuples that pass check_tuple_size
\* are those that fit into an empty heap page
MAX_TUPLE_SIZE == PageCap + 1

\* Table::check_tuple_size: whether it returns Ok(required_size)
check_tuple_size(required_size) == ~(required_size >= MAX_TUPLE_SIZE)

\* the version stored at a physical tuple id (what parse_heap_tuple_header
\* reads there, with `origin`: the version it replaced, <<0, 0>> for an insert)
At(id) == heap[id[1]][id[2] + 1]

VersionCount == Cardinality(Ids)

\* new_tuple that forgets the command id of the statement
StatementlessTuple(insert_tid, command_id, tuple_id, origin, size) ==
    [insert_tid |-> insert_tid, delete_tid |-> INVALID_TRANSACTION_ID,
     command_id |-> 0, tuple_id |-> tuple_id, origin |-> origin,
     size |-> size]

\* serialize_heap_tuple / HeapTupleHeader::new_tuple, with the size the
\* version occupies in its page
new_tuple(insert_tid, command_id, tuple_id, origin, size) ==
    [insert_tid |-> insert_tid, delete_tid |-> INVALID_TRANSACTION_ID,
     command_id |-> command_id, tuple_id |-> tuple_id, origin |-> origin,
     size |-> size]

\* PageHeader::free_space
RECURSIVE Used(_)
Used(page) == IF page = <<>> THEN 0 ELSE Head(page).size + Used(Tail(page))

free_space(page) == PageCap - Used(page)

\* insert_tuple (the free function): whether the page has room
Fits(page, size) == ~(free_space(page) < size)

\* is_tuple_visible that lets a statement see its own inserts
BadOwnWriteRule(t, insert_tid, command_id, delete_tid) ==
    IF insert_tid >= t.tid_max THEN FALSE
    ELSE LET st == get_transaction_status(insert_tid) IN
         IF st = Invalid \/ st = Aborted THEN FALSE
         ELSE IF st = InProgress
         THEN IF insert_tid = t.tid
              THEN delete_tid = INVALID_TRANSACTION_ID /\ t.command_id >= command_id
              ELSE FALSE
         ELSE IF insert_tid \in t.alive_tids THEN FALSE
         ELSE IF delete_tid = INVALID_TRANSACTION_ID \/ delete_tid >= t.tid_max
         THEN TRUE
         ELSE LET sd == get_transaction_status(delete_tid) IN
              IF sd = Invalid \/ sd = Aborted THEN TRUE
              ELSE IF sd = InProgress THEN delete_tid # t.tid
              ELSE delete_tid \in t.alive_tids

(* Transaction::is_tuple_visible on handle t *)
is_tuple_visible(t, insert_tid, command_id, delete_tid) ==
    IF insert_tid >= t.tid_max THEN FALSE
    ELSE LET st == get_transaction_status(insert_tid) IN
         IF st = Invalid \/ st = Aborted THEN FALSE
         ELSE IF st = InProgress
         THEN IF insert_tid = t.tid
              THEN delete_tid = INVALID_TRANSACTION_ID /\ t.command_id > command_id
              ELSE FALSE
         ELSE IF insert_tid \in t.alive_tids THEN FALSE
         ELSE IF delete_tid = INVALID_TRANSACTION_ID \/ delete_tid >= t.tid_max
         THEN TRUE
         ELSE LET sd == get_transaction_status(delete_tid) IN
              IF sd = Invalid \/ sd = Aborted THEN TRUE
              ELSE IF sd = InProgress THEN delete_tid # t.tid
              ELSE delete_tid \in t.alive_tids

\* the tids whose status is_tuple_visible looks up, in call order
VisibleLookups(t, insert_tid, delete_tid) ==
    IF insert_tid >= t.tid_max THEN <<>>
    ELSE IF /\ get_transaction_status(insert_tid) = Committed
            /\ insert_tid \notin t.alive_tids
            /\ ~(delete_tid = INVALID_TRANSACTION_ID \/ delete_tid >= t.tid_max)
         THEN <<insert_tid, delete_tid>>
         ELSE <<insert_tid>>

\* is_tuple_visible of thread p's handle on the version stored at id
Visible(p, id) ==
    is_tuple_visible(txn[p], At(id).insert_tid, At(id).command_id, At(id).delete_tid)

\* what a scan of thread p yields in the current state
VisibleSet(p) == {id \in Ids : Visible(p, id)}

(* heap_tuple_satisfies_update; "Panic" is the unreachable!() arm *)
heap_tuple_satisfies_update(header, original_id, t) ==
    IF get_transaction_status(header.insert_tid) # Committed
    THEN [kind |-> "Ok", id |-> <<0, 0>>]
    ELSE IF header.delete_tid = INVALID_TRANSACTION_ID
    THEN [kind |-> "Ok", id |-> <<0, 0>>]
    ELSE IF header.delete_tid = t.tid
    THEN [kind |-> "SelfUpdated", id |-> <<0, 0>>]
    ELSE LET sd == get_transaction_status(header.delete_tid) IN
         IF sd = Committed
         THEN IF header.tuple_id = original_id
              THEN [kind |-> "Deleted", id |-> <<0, 0>>]
              ELSE [kind |-> "Updated", id |-> header.tuple_id]
         ELSE IF sd = Aborted THEN [kind |-> "Ok", id |-> <<0, 0>>]
         ELSE IF sd = InProgress THEN [kind |-> "BeingModified", id |-> <<0, 0>>]
         ELSE [kind |-> "Panic", id |-> <<0, 0>>]

\* the tids whose status heap_tuple_satisfies_update looks up, in call order
UpdateLookups(header, t) ==
    IF \/ get_transaction_status(header.insert_tid) # Committed
       \/ header.delete_tid = INVALID_TRANSACTION_ID
       \/ header.delete_tid = t.tid
    THEN <<header.insert_tid>>
    ELSE <<header.insert_tid, header.delete_tid>>

\* highest log page after the status lookups of `tids`, made in this order
RECURSIVE HighestAfterLookups(_, _)
HighestAfterLookups(tids, highest) ==
    IF tids = <<>> THEN highest
    ELSE HighestAfterLookups(Tail(tids), HighestAfterStatus(Head(tids), highest))

\* the log after these lookups: get_page has allocated the missing pages
LogAfterLookups(tids) == LogGrownTo(HighestAfterLookups(tids, HighestLogPage))

\* the heap with version v appended to page n (a new page when n is one past
\* the highest page)
Appended(h, n, v) ==
    IF n = Len(h) + 1 THEN Append(h, <<v>>)
    ELSE [h EXCEPT ![n] = Append(@, v)]

\* buffer.mark_dirty() of the heap calls: the dirty pages once the heap has
\* become h (every page a call writes to is marked)
MarkedDirty(h) ==
    dirty \cup {<<"heap", n>> : n \in {m \in 1..Len(h) :
                                        m > Len(heap) \/ h[m] # heap[m]}}

\* another thread holds the write lock of heap page n while it is blocked
\* (in lock_tuple, called before the page guard is dropped)
PageLocked(p, n) ==
    \E q \in Procs \ {p} : pc[q] = "locking" /\ call[q].target[1] = n

(* Table::insert_tuple *)
Insert(p, size) ==
    /\ pc[p] = "idle"
    /\ ~PageLocked(p, Len(heap))
    /\ IF check_tuple_size(size)
       THEN /\ LET t == txn[p]
                   highest == Len(heap)
                   n == IF highest = INVALID_PAGE_NO THEN 1
                        ELSE IF Fits(heap[highest], size) THEN highest
                        ELSE highest + 1
                   slot == IF n = highest THEN Len(heap[n]) ELSE 0
               IN heap' = Appended(heap, n,
                              new_tuple(t.tid, t.command_id, <<n, slot>>,
                                        <<0, 0>>, size))
            /\ dirty' = MarkedDirty(heap')
            /\ returned' = [proc |-> p, kind |-> "Inserted", id |-> <<0, 0>>]
       ELSE /\ returned' = [proc |-> p, kind |-> "Err", id |-> <<0, 0>>]
            /\ UNCHANGED <<heap, dirty>>
    /\ UNCHANGED <<codec, page_size, next_tid, alive_tids, tid_locks, tuple_locks, log, txn, pc,
                   call, committed_ok, aborted_ok, hist, ok_writers>>

\* update_tuple, Ok arm, new version on the same page: the old header as
\* it is serialized back
SamePageHeader(header, t, tuple_id) ==
    [header EXCEPT !.tuple_id = tuple_id, !.delete_tid = t.tid]

\* update_tuple, Ok arm, new version on another page: the old header as it
\* is serialized back (only tuple_id is assigned on this path)
OtherPageHeader(header, t, tuple_id) ==
    [header EXCEPT !.tuple_id = tuple_id]

\* update_tuple, Ok arm, inner loop after the first other page was full:
\* the page number taken for the new version (buffer.page_id(), the page of
\* the old version)
RetryPageNo(page_no, allocated) == page_no

\* the heap after the Ok arm of update_tuple on the version at id
UpdateOk(t, id, size) ==
    LET page_no == id[1]
        header == At(id)
    IN  IF Fits(heap[page_no], size)
        THEN LET update_slot == Len(heap[page_no])
                 to == <<page_no, update_slot>>
             IN Appended([heap EXCEPT ![page_no][id[2] + 1] =
                              SamePageHeader(header, t, to)],
                         page_no, new_tuple(t.tid, t.command_id, to, id, size))
        ELSE LET highest == Len(heap)
                 \* first other page tried: a new page when the old version
                 \* is on the highest page, the highest page otherwise
                 first == IF page_no = highest THEN highest + 1 ELSE highest
                 fits == first = highest + 1 \/ Fits(heap[first], size)
                 \* page the new version is stored on
                 n == IF fits THEN first ELSE highest + 1
                 update_page_no == IF fits THEN first
                                   ELSE RetryPageNo(page_no, highest + 1)
                 update_slot == IF n = highest + 1 THEN 0 ELSE Len(heap[n])
                 to == <<update_page_no, update_slot>>
             IN Appended([heap EXCEPT ![page_no][id[2] + 1] =
                              OtherPageHeader(header, t, to)],
                         n, new_tuple(t.tid, t.command_id, to, id, size))

\* the heap after the Ok arm of delete_tuple on the version at id
DeleteOk(t, id) == [heap EXCEPT ![id[1]][id[2] + 1].delete_tid = t.tid]

\* no other thread holds the exclusive tuple lock of id
TupleLockFree(p, id) == \A q \in Procs \ {p} : <<id, q>> \notin tuple_locks

(* one pass of the loop of update_tuple / delete_tuple, under the write lock
   of the page: parse the header, classify, act *)
Classify(p, kind, id, size) ==
    LET t == txn[p]
        header == At(id)
        r == heap_tuple_satisfies_update(header, id, t)
    IN  /\ ~PageLocked(p, id[1])
        \* the page the new version of an update goes to when its own is full
        /\ (r.kind = "Ok" /\ kind = "update" /\ ~Fits(heap[id[1]], size))
              => ~PageLocked(p, Len(heap))
        /\ log' = LogAfterLookups(UpdateLookups(header, t))
        /\ IF r.kind = "BeingModified" /\ TupleLockFree(p, id)
           THEN \* lock_tuple (once), drop the page lock, wait for delete_tid
                /\ tuple_locks' = tuple_locks \cup {<<id, p>>}
                /\ call' = [call EXCEPT ![p] =
                              [NoCall EXCEPT !.kind = kind, !.target = id,
                                             !.size = size,
                                             !.tuple_lock = TRUE,
                                             !.wait = header.delete_tid]]
                /\ pc' = [pc EXCEPT ![p] = "waiting"]
                /\ returned' = NoReturn
                /\ UNCHANGED <<heap, ok_writers>>
           ELSE IF r.kind = "BeingModified"
           THEN \* lock_tuple blocks: the tuple lock is held by another
                \* caller, and this one still holds the page write guard
                /\ call' = [call EXCEPT ![p] =
                              [NoCall EXCEPT !.kind = kind, !.target = id,
                                             !.size = size,
                                             !.wait = header.delete_tid]]
                /\ pc' = [pc EXCEPT ![p] = "locking"]
                /\ returned' = NoReturn
                /\ UNCHANGED <<tuple_locks, heap, ok_writers>>
           ELSE \* the call returns (or panics); the tuple lock guard is dropped
                /\ tuple_locks' = tuple_locks \ {<<id, p>>}
                /\ call' = [call EXCEPT ![p] = NoCall]
                /\ pc' = [pc EXCEPT ![p] =
                            IF r.kind = "Panic" THEN "panicked" ELSE "idle"]
                /\ returned' = [proc |-> p, kind |-> r.kind, id |-> r.id]
                /\ IF r.kind = "Ok"
                   THEN /\ heap' = IF kind = "update" THEN UpdateOk(t, id, size)
                                   ELSE DeleteOk(t, id)
                        /\ ok_writers' = ok_writers \cup {<<id, t.tid>>}
                   ELSE UNCHANGED <<heap, ok_writers>>
        /\ dirty' = IF r.kind = "Ok" THEN MarkedDirty(heap') ELSE dirty
        /\ UNCHANGED <<codec, page_size, next_tid, alive_tids, tid_locks, txn, committed_ok,
                       aborted_ok, hist>>

\* tuple ids a caller passes to update_tuple / delete_tuple: a version of a
\* committed transaction, or one the caller inserted by an earlier command
\* (the debug_assert of heap_tuple_satisfies_update)
Targetable(p, id) ==
    \/ get_transaction_status(At(id).insert_tid) = Committed
    \/ At(id).insert_tid = txn[p].tid /\ At(id).command_id < txn[p].command_id

(* Table::update_tuple, from the call to its return or to its wait *)
Update(p, id, size) ==
    /\ pc[p] = "idle"
    /\ Targetable(p, id)
    /\ IF check_tuple_size(size)
       THEN Classify(p, "update", id, size)
       ELSE /\ returned' = [proc |-> p, kind |-> "Err", id |-> <<0, 0>>]
            /\ UNCHANGED <<codec, page_size, dirty, next_tid, alive_tids, tid_locks,
                           tuple_locks, log, heap, txn, pc, call, committed_ok,
                           aborted_ok, hist, ok_writers>>

(* Table::delete_tuple, from the call to its return or to its wait *)
Delete(p, id) ==
    /\ pc[p] = "idle"
    /\ Targetable(p, id)
    /\ Classify(p, "delete", id, 0)

(* lock_tuple returns to a caller that was blocked in it: the caller drops
   the page guard and goes on to wait_for_transaction_to_end *)
LockGranted(p) ==
    /\ pc[p] = "locking"
    /\ TupleLockFree(p, call[p].target)
    /\ tuple_locks' = tuple_locks \cup {<<call[p].target, p>>}
    /\ call' = [call EXCEPT ![p].tuple_lock = TRUE]
    /\ pc' = [pc EXCEPT ![p] = "waiting"]
    /\ returned' = NoReturn
    /\ UNCHANGED <<codec, page_size, dirty, next_tid, alive_tids, tid_locks, log, heap, txn,
                   committed_ok, aborted_ok, hist, ok_writers>>

(* wait_for_transaction_to_end returns: the self-lock of the other
   transaction was released *)
WaitEnd(p) ==
    /\ pc[p] = "waiting"
    /\ call[p].wait \notin tid_locks
    /\ pc' = [pc EXCEPT ![p] = "retry"]
    /\ returned' = NoReturn
    /\ UNCHANGED <<codec, page_size, dirty, next_tid, alive_tids, tid_locks, tuple_locks, log, heap, txn,
                   call, committed_ok, aborted_ok, hist, ok_writers>>

(* the loop of update_tuple / delete_tuple goes round again *)
Retry(p) ==
    /\ pc[p] = "retry"
    /\ Classify(p, call[p].kind, call[p].target, call[p].size)

\* status lookups of a scan over pages n.. and slots s.., in scan order
RECURSIVE ScanLookups(_, _, _)
ScanLookups(t, n, s) ==
    IF n > Len(heap) THEN <<>>
    ELSE IF s >= Len(heap[n]) THEN ScanLookups(t, n + 1, 0)
    ELSE VisibleLookups(t, At(<<n, s>>).insert_tid, At(<<n, s>>).delete_tid)
             \o ScanLookups(t, n, s + 1)

(* Table::iter and the iteration to its end *)
Scan(p) ==
    /\ pc[p] = "idle"
    /\ \A n \in 1..Len(heap) : ~PageLocked(p, n)
    /\ returned' = NoReturn
    /\ log' = LogAfterLookups(ScanLookups(txn[p], 1, 0))
    /\ UNCHANGED <<codec, page_size, dirty, next_tid, alive_tids, tid_locks, tuple_locks, heap, txn, pc,
                   call, committed_ok, aborted_ok, hist, ok_writers>>

(* Table::iter: HeapTupleIterator::new(highest_page_no, ..) *)
iter(p) ==
    /\ pc[p] = "idle"
    /\ call' = [call EXCEPT ![p] =
                  [NoCall EXCEPT !.kind = "iter", !.curr_page_no = 1,
                                 !.max_page_no = Len(heap), !.curr_slot = 0,
                                 !.at_open = Ids]]
    /\ pc' = [pc EXCEPT ![p] = "iterating"]
    /\ returned' = NoReturn
    /\ UNCHANGED <<codec, page_size, dirty, next_tid, alive_tids, tid_locks, tuple_locks, log, heap,
                   txn, committed_ok, aborted_ok, hist, ok_writers>>

\* fetch_next_tuple that yields the tuple with the tuple_id stored in its
\* header instead of the place the iterator stands at
FetchHeaderTupleId(p) ==
    LET c == call[p]
        at == <<c.curr_page_no, c.curr_slot>>
    IN  /\ pc[p] = "iterating"
        /\ c.curr_page_no <= c.max_page_no => ~PageLocked(p, c.curr_page_no)
        /\ IF c.curr_page_no > c.max_page_no
           THEN /\ call' = [call EXCEPT ![p] = NoCall]
                /\ pc' = [pc EXCEPT ![p] = "idle"]
                /\ returned' = [proc |-> p, kind |-> "End", id |-> <<0, 0>>]
                /\ UNCHANGED log
           ELSE IF c.curr_slot = Len(heap[c.curr_page_no])
           THEN /\ call' = [call EXCEPT ![p].curr_page_no = @ + 1,
                                        ![p].curr_slot = 0]
                /\ returned' = NoReturn
                /\ UNCHANGED <<pc, log>>
           ELSE /\ log' = LogAfterLookups(
                             VisibleLookups(txn[p], At(at).insert_tid, At(at).delete_tid))
                /\ IF Visible(p, at)
                   THEN /\ call' = [call EXCEPT ![p].curr_slot = @ + 1,
                                     ![p].examined = Append(@, at),
                                     ![p].yielded = Append(@, At(at).tuple_id)]
                        /\ returned' = [proc |-> p, kind |-> "Tuple",
                                        id |-> At(at).tuple_id]
                   ELSE /\ call' = [call EXCEPT ![p].curr_slot = @ + 1,
                                     ![p].examined = Append(@, at)]
                        /\ returned' = NoReturn
                /\ UNCHANGED pc
        /\ UNCHANGED <<codec, page_size, dirty, next_tid, alive_tids, tid_locks, tuple_locks, heap,
                       txn, committed_ok, aborted_ok, hist, ok_writers>>

(* HeapTupleIterator::fetch_next_tuple, one turn of its loop: return None
   past max_page_no, go to the next page at the end of the slots, or parse
   the header at the current slot and yield the tuple when it is visible *)
fetch_next_tuple(p) ==
    LET c == call[p]
        at == <<c.curr_page_no, c.curr_slot>>
    IN  /\ pc[p] = "iterating"
        /\ c.curr_page_no <= c.max_page_no => ~PageLocked(p, c.curr_page_no)
        /\ IF c.curr_page_no > c.max_page_no
           THEN /\ call' = [call EXCEPT ![p] = NoCall]
                /\ pc' = [pc EXCEPT ![p] = "idle"]
                /\ returned' = [proc |-> p, kind |-> "End", id |-> <<0, 0>>]
                /\ UNCHANGED log
           ELSE IF c.curr_slot = Len(heap[c.curr_page_no])
           THEN /\ call' = [call EXCEPT ![p].curr_page_no = @ + 1,
                                        ![p].curr_slot = 0]
                /\ returned' = NoReturn
                /\ UNCHANGED <<pc, log>>
           ELSE /\ log' = LogAfterLookups(
                             VisibleLookups(txn[p], At(at).insert_tid, At(at).delete_tid))
                /\ IF Visible(p, at)
                   THEN /\ call' = [call EXCEPT ![p].curr_slot = @ + 1,
                                     ![p].examined = Append(@, at),
                                     ![p].yielded = Append(@, at)]
                        /\ returned' = [proc |-> p, kind |-> "Tuple", id |-> at]
                   ELSE /\ call' = [call EXCEPT ![p].curr_slot = @ + 1,
                                     ![p].examined = Append(@, at)]
                        /\ returned' = NoReturn
                /\ UNCHANGED pc
        /\ UNCHANGED <<codec, page_size, dirty, next_tid, alive_tids, tid_locks, tuple_locks, heap,
                       txn, committed_ok, aborted_ok, hist, ok_writers>>


(* ------------------------------ claims -------------------------------- *)
\* transaction ids the claims range over
AllTids == 0..(LogMaxTid + 1)

\* thread p holds the handle of a transaction that is in progress and is
\* between two calls
Idle(p) == pc[p] = "idle"

\* C1: the status of a tid, as get_transaction_status returns it, only moves
\* forward along Invalid -> InProgress -> {Committed, Aborted}: no step takes
\* it from InProgress back to Invalid, changes it once it is Committed or
\* Aborted, or takes it from Invalid to a final status
C1_StatusMovesForward ==
    [][\A t \in AllTids :
         LET before == get_transaction_status(t)
             after == get_transaction_status(t)'
         IN  /\ before = Invalid => after \in {Invalid, InProgress}
             /\ before = InProgress => after \in {InProgress, Committed, Aborted}
             /\ before \in {Committed, Aborted} => after = before]_vars

\* C2: once commit() has returned Ok for a tid its status reads Committed,
\* and once abort() has returned Ok it reads Aborted, in every later state
C2_FinalStatusStays ==
    \A t \in AllTids :
        /\ t \in committed_ok => get_transaction_status(t) = Committed
        /\ t \in aborted_ok => get_transaction_status(t) = Aborted

\* the version that the update writing the version at id replaced
PreImage(id) == At(id).origin
\* the versions written by an update_tuple call
PostImages == {id \in Ids : PreImage(id) # <<0, 0>>}

\* C3: for an update of a transaction whose commit has returned, no
\* transaction sees the pre-image and the post-image together, and a
\* transaction that could see the row when it started (the inserter of the
\* pre-image had committed) sees one of the two as long as the post-image has
\* no successor
C3_OneImageVisible ==
    \A p \in Procs, id \in PostImages :
        (Idle(p) /\ At(id).insert_tid \in committed_ok) =>
            /\ ~(Visible(p, PreImage(id)) /\ Visible(p, id))
            /\ (/\ At(PreImage(id)).insert_tid \in hist[p].before
                /\ At(id).delete_tid = INVALID_TRANSACTION_ID
                /\ At(id).tuple_id = id)
               => (Visible(p, PreImage(id)) \/ Visible(p, id))

\* C4: two transactions that are in progress at the same time never both
\* hold an Ok of update_tuple or delete_tuple on the same version
C4_OneLiveOkWriter ==
    \A w1 \in ok_writers, w2 \in ok_writers :
        (w1[1] = w2[1] /\ w1[2] # w2[2]) =>
            ~(w1[2] \in alive_tids /\ w2[2] \in alive_tids)

\* C5: a version inserted by a transaction whose commit() had returned when
\* transaction T was started, and not deleted, is visible to T
C5_CommittedInsertVisible ==
    \A p \in Procs, id \in Ids :
        (/\ Idle(p)
         /\ At(id).insert_tid \in hist[p].before
         /\ At(id).delete_tid = INVALID_TRANSACTION_ID)
        => Visible(p, id)

\* C6: under RepeatableRead a version inserted by a transaction that had a
\* tid and had not started to commit when T's start_transaction returned is
\* never visible to T
C6_RepeatableReadHidesLaterCommits ==
    \A p \in Procs, id \in Ids :
        (/\ Idle(p)
         /\ txn[p].isolation_level = "RepeatableRead"
         /\ At(id).insert_tid \in hist[p].active)
        => ~Visible(p, id)

\* C7: while T's handle (statement, snapshot) and a stored header stay the
\* same, no step of any thread changes what is_tuple_visible answers for it
C7_SameAnswerWithinStatement ==
    [][\A p \in Procs, id \in Ids :
         (/\ Idle(p) /\ Idle(p)'
          /\ txn[p]' = txn[p]
          /\ id \in Ids'
          /\ At(id)'.insert_tid = At(id).insert_tid
          /\ At(id)'.command_id = At(id).command_id
          /\ At(id)'.delete_tid = At(id).delete_tid)
         => (Visible(p, id)' = Visible(p, id))]_vars

\* the decision table of the visibility predicate, by the status of the
\* inserter and of the deleter
InsertCase(t, insert_tid, cid, delete_tid, deleter_case) ==
    CASE get_transaction_status(insert_tid) \in {Invalid, Aborted} -> FALSE
      [] get_transaction_status(insert_tid) = InProgress ->
            /\ insert_tid = t.tid
            /\ delete_tid = 0
            /\ cid < t.command_id
      [] get_transaction_status(insert_tid) = Committed ->
            CASE insert_tid \in t.alive_tids -> FALSE
              [] insert_tid \notin t.alive_tids
                 /\ (delete_tid = 0 \/ delete_tid >= t.tid_max) -> TRUE
              [] OTHER -> deleter_case
DeleterCase(t, delete_tid) ==
    CASE get_transaction_status(delete_tid) \in {Invalid, Aborted} -> TRUE
      [] get_transaction_status(delete_tid) = InProgress -> delete_tid # t.tid
      [] get_transaction_status(delete_tid) = Committed -> delete_tid \in t.alive_tids
DecisionTable(t, insert_tid, cid, delete_tid) ==
    CASE insert_tid >= t.tid_max -> FALSE
      [] OTHER -> InsertCase(t, insert_tid, cid, delete_tid, DeleterCase(t, delete_tid))

\* the transaction ids a header can hold in the snapshots workload
SnapshotTids == 0..(SnapshotsMaxTid + 1)

\* the handles of the transactions in progress
Handles == {txn[p] : p \in {q \in Procs : pc[q] \notin {"none", "starting"}}}

\* C8: for every handle and every header (insert_tid, cid, delete_tid),
\* is_tuple_visible returns the value of the decision table
C8_VisibleAsDecisionTable ==
    \A t \in Handles, insert_tid \in SnapshotTids, cid \in 0..MaxCmd,
       delete_tid \in SnapshotTids :
        is_tuple_visible(t, insert_tid, cid, delete_tid)
            = DecisionTable(t, insert_tid, cid, delete_tid)

\* a handle in its second statement sees its own earlier insert, and a
\* handle sees a version whose committed deleter is in its snapshot
C8_Witness ==
    /\ \E t \in Handles :
          /\ t.command_id = MaxCmd
          /\ is_tuple_visible(t, t.tid, 0, INVALID_TRANSACTION_ID)
    /\ \E t \in Handles, insert_tid \in SnapshotTids, delete_tid \in SnapshotTids :
          /\ get_transaction_status(insert_tid) = Committed
          /\ get_transaction_status(delete_tid) = Committed
          /\ delete_tid \in t.alive_tids
          /\ is_tuple_visible(t, insert_tid, 0, delete_tid)

\* C9: once abort() has returned for a transaction, no version it inserted is
\* visible to any transaction, and a version it deleted or updated is visible
\* to a transaction exactly when the same version without a deleter would be
C9_AbortLeavesNoTrace ==
    \A d \in aborted_ok, p \in Procs, id \in Ids :
        Idle(p) =>
            /\ At(id).insert_tid = d => ~Visible(p, id)
            /\ At(id).delete_tid = d =>
                  (Visible(p, id) = is_tuple_visible(txn[p], At(id).insert_tid,
                                       At(id).command_id, INVALID_TRANSACTION_ID))

\* the step is a write of thread p's transaction that got Ok: an insert, an
\* update or a delete
OwnWrite(p) == returned'.proc = p /\ returned'.kind \in {"Inserted", "Ok"}

\* C10 as stated: a write of T leaves the set of versions visible to T as it
\* was
C10_OwnWritesChangeNothing ==
    [][\A p \in Procs : OwnWrite(p) => VisibleSet(p)' = VisibleSet(p)]_vars

\* C10 amended: a write of T adds no version to the set visible to T, and
\* takes from it only the version the write deleted or updated (the one that
\* now carries T as its delete_tid); the next statement of T sees every
\* version T inserted and has not deleted
C10_OwnWritesOnlyHide ==
    [][\A p \in Procs :
         /\ OwnWrite(p) =>
               /\ VisibleSet(p)' \subseteq VisibleSet(p)
               /\ \A id \in VisibleSet(p) \ VisibleSet(p)' :
                     At(id)'.delete_tid = txn[p].tid
         /\ (Idle(p) /\ Idle(p)' /\ txn[p]'.command_id = txn[p].command_id + 1) =>
               \A id \in Ids :
                   (/\ At(id).insert_tid = txn[p].tid
                    /\ At(id).delete_tid = INVALID_TRANSACTION_ID)
                   => Visible(p, id)']_vars

\* T has deleted or updated a version in its second statement, which it no
\* longer sees, and has written a version in that statement, which it does
\* not see yet
C10_Witness ==
    \E p \in Procs :
        /\ returned.proc = p /\ returned.kind = "Ok"
        /\ txn[p].command_id = MaxCmd
        /\ \E id \in Ids :
              /\ At(id).delete_tid = txn[p].tid
              /\ ~Visible(p, id)
              /\ is_tuple_visible(txn[p], At(id).insert_tid, At(id).command_id,
                                  INVALID_TRANSACTION_ID)
        /\ \E id \in Ids :
              /\ At(id).insert_tid = txn[p].tid
              /\ At(id).command_id = MaxCmd
              /\ ~Visible(p, id)

\* C11: under ReadCommitted, after refresh_transaction, a version inserted
\* by a transaction whose commit() had returned before that refresh, and not
\* deleted, is visible to the refreshed transaction
C11_RefreshShowsCommitted ==
    \A p \in Procs, id \in Ids :
        (/\ Idle(p)
         /\ txn[p].isolation_level = "ReadCommitted"
         /\ At(id).insert_tid \in hist[p].refreshed
         /\ At(id).delete_tid = INVALID_TRANSACTION_ID)
        => Visible(p, id)

\* thread p holds a handle whose snapshot has been taken
Snapshotted(p) == pc[p] \notin {"none", "starting"}

\* C12: under RepeatableRead no step changes the alive_tids snapshot or the
\* tid_max of a handle after its start, whatever the other threads do, and
\* refresh_transaction changes nothing of the handle but command_id, which
\* it increments
C12_RepeatableReadSnapshotFrozen ==
    [][\A p \in Procs :
         (/\ Snapshotted(p) /\ Snapshotted(p)'
          /\ txn[p].isolation_level = "RepeatableRead")
         => /\ txn[p]'.alive_tids = txn[p].alive_tids
            /\ txn[p]'.tid_max = txn[p].tid_max
            /\ \/ txn[p]' = txn[p]
               \/ txn[p]' = [txn[p] EXCEPT !.command_id = @ + 1]]_vars

\* a RepeatableRead handle has been refreshed and its snapshot is no longer
\* what a new snapshot would be
C12_Witness ==
    \E p \in Procs :
        /\ Idle(p)
        /\ txn[p].isolation_level = "RepeatableRead"
        /\ txn[p].command_id = MaxCmd
        /\ txn[p].alive_tids # alive_tids
        /\ txn[p].tid_max < next_tid

\* C13: when wait_for_transaction_to_end(other) returns, the status of
\* other is Committed or Aborted
C13_WaitReturnsAfterEnd ==
    \A p \in Procs :
        pc[p] = "retry" =>
            get_transaction_status(call[p].wait) \in {Committed, Aborted}

\* thread p is inside delete_tuple, past a first pass that found the target
\* being modified by transaction call[p].wait
DeleteWaits(p) == pc[p] \in {"waiting", "retry"} /\ call[p].kind = "delete"

\* C14: a delete_tuple of T_b that found its target's delete_tid belonging
\* to an in-progress T_a does not leave its wait before T_a has ended, and if
\* T_a aborted, the next pass of the call returns Ok and leaves T_b's tid as
\* the delete_tid of the target
C14_DeleteAfterAbortedDelete ==
    [][\A p \in Procs :
         DeleteWaits(p) =>
            /\ (pc[p] = "waiting" /\ pc'[p] # "waiting")
                   => call[p].wait \in (committed_ok \cup aborted_ok)'
            /\ (pc[p] = "retry" /\ pc'[p] # "retry"
                   /\ call[p].wait \in aborted_ok)
                   => /\ returned' = [proc |-> p, kind |-> "Ok", id |-> <<0, 0>>]
                      /\ heap'[call[p].target[1]][call[p].target[2] + 1]
                            .delete_tid = txn[p].tid]_vars

\* C15: a delete_tuple of T_b that waited for T_a, where T_a deleted the target
\* (its tuple_id still names the target itself) and committed, returns
\* Deleted on its next pass and leaves the target's header as T_a wrote it
C15_DeleteAfterCommittedDelete ==
    [][\A p \in Procs :
         (/\ DeleteWaits(p) /\ pc[p] = "retry" /\ pc'[p] # "retry"
          /\ call[p].wait \in committed_ok
          /\ At(call[p].target).tuple_id = call[p].target)
         => /\ returned' = [proc |-> p, kind |-> "Deleted", id |-> <<0, 0>>]
            /\ heap' = heap
            /\ At(call[p].target).delete_tid = call[p].wait]_vars

\* the versions that replaced version id and whose writer's commit() returned
Replacements(id) ==
    {r \in Ids : At(r).origin = id /\ At(r).insert_tid \in committed_ok}

\* C16: update_tuple and delete_tuple on a version that a committed
\* transaction has replaced return Updated(the replacement) and change no
\* page
C16_ReplacedVersionPointsForward ==
    [][\A p \in Procs, id \in Ids :
         (/\ Replacements(id) # {}
          /\ \/ Delete(p, id)
             \/ \E z \in UpdateSizes : Update(p, id, z))
         => /\ \E r \in Replacements(id) :
                  returned' = [proc |-> p, kind |-> "Updated", id |-> r]
            /\ heap' = heap]_vars

\* the step is a call of commit() / abort() by thread p that returns an error
\* and leaves the handle's end state, the global alive_tids, the log and the
\* self-locks as they were
Refused(p) ==
    /\ returned' = [proc |-> p, kind |-> "Err", id |-> <<0, 0>>]
    /\ txn'[p] = txn[p]
    /\ alive_tids' = alive_tids
    /\ log' = log
    /\ tid_locks' = tid_locks

\* C17: commit() on a handle whose end state is Committed, Aborted or
\* ExpectedRollback, and abort() on a handle whose end state is Committed or
\* Aborted, return an error and change neither the end state, nor the global
\* alive_tids, nor the log, nor the self-lock of the tid
C17_EndedHandleRefuses ==
    [][\A p \in Procs :
         /\ (/\ txn[p].end \in {"Committed", "Aborted", "ExpectedRollback"}
             /\ BeginEnd(p, Committed)) => Refused(p)
         /\ (/\ txn[p].end \in {"Committed", "Aborted"}
             /\ BeginEnd(p, Aborted)) => Refused(p)]_vars

\* a commit() or abort() on a handle that had ended has just returned its error
C17_Witness ==
    \E p \in Procs :
        /\ returned = [proc |-> p, kind |-> "Err", id |-> <<0, 0>>]
        /\ txn[p].end \in {"Committed", "Aborted"}
        /\ txn[p].tid \in committed_ok \cup aborted_ok

\* the tids handed out so far, as the history and the handles record them
HandedOut ==
    committed_ok \cup aborted_ok
        \cup {txn[q].tid : q \in {r \in Procs : pc[r] # "none"}}

\* C18: the tid that start_transaction hands out is above every tid handed
\* out before, is never 0 or 1, and is 2 when none was handed out before,
\* whichever threads start transactions at the same time
C18_TidsDistinctIncreasing ==
    [][\A p \in Procs :
         (pc[p] = "none" /\ pc'[p] = "starting")
         => /\ txn'[p].tid \notin {INVALID_TRANSACTION_ID, BOOTSTRAP_TRANSACTION_ID}
            /\ \A u \in HandedOut : u < txn'[p].tid
            /\ HandedOut = {} => txn'[p].tid = FirstTid]_vars

\* the step is a reopening of the database
Reopened == returned' = [proc |-> 0, kind |-> "Opened", id |-> <<0, 0>>]
                /\ returned # returned'

\* C19: a tid whose commit() or abort() returned and whose status read
\* Committed or Aborted before the database was reopened has the same status
\* after the reopening
C19_StatusSurvivesReopen ==
    [][Reopened =>
         \A t \in committed_ok \cup aborted_ok :
             get_transaction_status(t) \in {Committed, Aborted}
                 => get_transaction_status(t)' = get_transaction_status(t)]_vars

\* the tids whose status bits on the last allocated log page are not zero
WrittenOnLastPage ==
    {t \in 0..(4 * page_size * HighestLogPage - 1) :
        /\ PageOf(t) = HighestLogPage
        /\ StatusBits(log[HighestLogPage][PagePos(t)], t) # 0}

Highest(tids) == CHOOSE t \in tids : \A u \in tids : u <= t

\* C20: a reopening sets next_tid to one more than the highest tid whose
\* status bits on the last allocated log page are not zero; when every tid
\* allocated before was committed or aborted, that is one more than the
\* highest tid allocated before, which the next transaction then gets
C20_ReopenContinuesTids ==
    [][Reopened =>
         /\ WrittenOnLastPage # {}
               => next_tid' = Highest(WrittenOnLastPage) + 1
         /\ Allocated = committed_ok \cup aborted_ok
               => next_tid' = next_tid]_vars

\* the final status of thread p's commit() / abort() is among the bits of its
\* tid on some page of the log l
StatusWritten(p, l) ==
    \E n \in 1..Len(l) :
        LET bits == StatusBits(l[n][PagePos(txn[p].tid)], txn[p].tid)
        IN  BitOr(bits, call[p].new_status) = bits

\* C21: the step of commit() / abort() that writes the final status bits
\* ends with no buffer dirty (flush_all_buffers comes after the write), and
\* only a call that has taken this step releases the self-lock of its tid,
\* returns Ok, or lets a waiter go on
C21_FlushBeforeRelease ==
    [][\A p \in Procs :
         /\ (pc[p] = "ending2" /\ pc'[p] # "ending2")
               => /\ pc'[p] = "ending3"
                  /\ StatusWritten(p, log')
                  /\ dirty' = {}
         /\ (\/ txn[p].tid \in tid_locks \ tid_locks'
             \/ txn[p].tid \in (committed_ok \cup aborted_ok)'
                                 \ (committed_ok \cup aborted_ok))
               => pc[p] = "ending3"
         /\ (pc[p] = "waiting" /\ pc'[p] = "retry")
               => \A q \in Procs : txn[q].tid = call[p].wait
                                     => pc[q] \notin {"ending1", "ending2", "ending3"}]_vars

\* a commit() or abort() has written its status and flushed the heap pages
\* its transaction had written, and still holds its self-lock
C21_Witness ==
    \E p \in Procs :
        /\ pc[p] = "ending3"
        /\ txn[p].tid \in tid_locks
        /\ \E id \in Ids : At(id).insert_tid = txn[p].tid
        /\ dirty = {}

\* C22: refresh_transaction on a transaction that has run fewer than 255
\* refreshes succeeds and adds one to command_id (which counts them from 0);
\* on one whose command_id is 255 it returns an error and leaves command_id,
\* the snapshot alive_tids and tid_max as they were; so it succeeds exactly
\* 255 times
C22_RefreshFailsAfter255 ==
    [][\A p \in Procs :
         Refresh(p)
         => /\ txn[p].command_id \in 0..U8Max
            /\ IF txn[p].command_id < U8Max
               THEN /\ txn'[p].command_id = txn[p].command_id + 1
                    /\ returned' = NoReturn
               ELSE /\ returned' = [proc |-> p, kind |-> "Err", id |-> <<0, 0>>]
                    /\ txn'[p] = txn[p]]_vars

\* the 256th refresh_transaction of a ReadCommitted transaction has returned
\* its error while the manager's alive_tids and next_tid differ from the
\* snapshot
C22_Witness ==
    \E p \in Procs :
        /\ returned = [proc |-> p, kind |-> "Err", id |-> <<0, 0>>]
        /\ Idle(p)
        /\ txn[p].command_id = U8Max
        /\ txn[p].isolation_level = "ReadCommitted"
        /\ txn[p].alive_tids # alive_tids
        /\ txn[p].tid_max # next_tid

\* C23: start_transaction called when next_tid has reached u32::MAX returns
\* an error and leaves next_tid, the global alive_tids and the lock manager as
\* they were; the caller gets no handle and no transaction becomes alive
C23_ExhaustedStartFails ==
    [][\A p \in Procs, i \in {"ReadCommitted", "RepeatableRead"} :
         (next_tid = U32Max /\ StartAlloc(p, i))
         => /\ returned' = [proc |-> p, kind |-> "Err", id |-> <<0, 0>>]
            /\ next_tid' = next_tid
            /\ alive_tids' = alive_tids
            /\ tid_locks' = tid_locks
            /\ tuple_locks' = tuple_locks
            /\ txn' = txn
            /\ pc' = pc]_vars

\* a start_transaction has failed on the exhausted tid space
C23_Witness ==
    \E p \in Procs :
        /\ returned = [proc |-> p, kind |-> "Err", id |-> <<0, 0>>]
        /\ pc[p] = "none"
        /\ next_tid = U32Max

\* required sizes around MAX_TUPLE_SIZE
AllSizes == 1..(MAX_TUPLE_SIZE + 1)

\* C24: insert_tuple and update_tuple return an error exactly when the
\* required size of the tuple is above MAX_TUPLE_SIZE, and a call that
\* returns this error has changed no page, allocated none and taken no lock
C24_RejectsOnlyAboveMax ==
    [][\A p \in Procs, size \in AllSizes :
         (\/ Insert(p, size)
          \/ \E id \in Ids : Update(p, id, size))
         => LET rejected ==
                    returned' = [proc |-> p, kind |-> "Err", id |-> <<0, 0>>]
            IN  /\ rejected <=> size > MAX_TUPLE_SIZE
                /\ rejected => /\ heap' = heap
                               /\ log' = log
                               /\ dirty' = dirty
                               /\ tuple_locks' = tuple_locks]_vars

\* the step is a pass of update_tuple by thread p on version id that
\* returns Ok
UpdateGetsOk(p, id) ==
    /\ \/ \E z \in UpdateSizes : Update(p, id, z)
       \/ call[p].kind = "update" /\ call[p].target = id /\ Retry(p)
    /\ returned' = [proc |-> p, kind |-> "Ok", id |-> <<0, 0>>]

\* C25: when update_tuple of transaction T returns Ok, the header of the old
\* version has delete_tid = T.tid and its tuple_id is the place where the
\* new version was stored, on the same page or on another one
C25_UpdateLinksOldToNew ==
    [][\A p \in Procs, id \in Ids :
         UpdateGetsOk(p, id)
         => LET old == heap'[id[1]][id[2] + 1]
            IN  /\ old.delete_tid = txn[p].tid
                /\ old.tuple_id \in Ids' \ Ids]_vars

\* the versions written as the new version of an update of version id
Newer(id) == {r \in Ids : At(r).origin = id}

\* C26: the tuple_id in the header of a version names the version itself
\* exactly when no newer version of it was written, and names the place of
\* a newer version otherwise
C26_TupleIdSelfOrNewer ==
    \A id \in Ids :
        /\ At(id).tuple_id = id <=> Newer(id) = {}
        /\ Newer(id) # {} => At(id).tuple_id \in Newer(id)

\* the step is a delete_tuple call of thread p on version id returning Ok
DeleteGetsOk(p, id) ==
    /\ \/ Delete(p, id)
       \/ call[p].kind = "delete" /\ call[p].target = id /\ Retry(p)
    /\ returned' = [proc |-> p, kind |-> "Ok", id |-> <<0, 0>>]

\* C27: a delete_tuple that returns Ok sets the version's delete_tid to the
\* deleting tid, leaves every other field of it, every other version and the
\* slot counts as they were, and the version's tuple_id is its own place
C27_DeleteChangesOnlyDeleteTid ==
    [][\A p \in Procs, id \in Ids :
         DeleteGetsOk(p, id)
         => /\ heap' = [heap EXCEPT ![id[1]][id[2] + 1].delete_tid = txn[p].tid]
            /\ heap'[id[1]][id[2] + 1].tuple_id = id]_vars

\* C28: every version a step adds to the heap carries the tid and the
\* command_id of the calling transaction, delete_tid 0 and a tuple_id equal
\* to the place where it is stored; an insert_tuple that stores a tuple
\* allocates at most one new page
C28_NewVersionHeader ==
    [][(\A id \in Ids' \ Ids :
          LET v == heap'[id[1]][id[2] + 1]
              p == returned'.proc
          IN  /\ p \in Procs
              /\ v.insert_tid = txn[p].tid
              /\ v.command_id = txn[p].command_id
              /\ v.delete_tid = INVALID_TRANSACTION_ID
              /\ v.tuple_id = id)
       /\ (returned'.kind = "Inserted" => Len(heap') <= Len(heap) + 1)]_vars

\* the two bits stored for tid in the log l (00 on a page not yet allocated)
LogBits(l, tid) ==
    IF PageOf(tid) <= Len(l) THEN StatusBits(l[PageOf(tid)][PagePos(tid)], tid)
    ELSE Invalid

\* thread p is inside change_transaction_status, past alive_tids.remove
InEnd(p) == pc[p] \in {"ending1", "ending2", "ending3"}

\* C29: commit() / abort() remove the tid from alive_tids, then write the
\* final status, then flush, then release the self-lock: during the call
\* the tid is not alive and its self-lock is held, after the write no log
\* page is dirty, the status of the tid reads Invalid or the status being
\* written, and the log bits of a tid in alive_tids are never a final status
C29_EndOrder ==
    /\ \A p \in Procs :
          InEnd(p) =>
            /\ txn[p].tid \notin alive_tids
            /\ txn[p].tid \in tid_locks
            /\ get_transaction_status(txn[p].tid) \in {Invalid, call[p].new_status}
            /\ pc[p] = "ending3" => \A n \in 1..Len(log) : <<"log", n>> \notin dirty
    /\ \A t \in alive_tids : LogBits(log, t) \notin {Aborted, Committed}

\* (byte >> 2k) & 0b11: the k-th pair of bits of a log byte
BitPair(byte, k) == (byte \div Pow2(2 * k)) % 4

\* C30: when commit() / abort() OR the final status into the log, the two
\* bits of the tid on the page written are 00 before the write and the
\* status written after it, and every other pair of bits of the byte, every
\* other byte of the page and every other page is as before
C30_WriteOnZeroBits ==
    [][\A p \in Procs :
         EndWrite(p)
         => LET tid == txn[p].tid
                n == PageWritten(tid, call[p].highest)
                before == LogGrownTo(n)
            IN  /\ StatusBits(before[n][PagePos(tid)], tid) = Invalid
                /\ StatusBits(log'[n][PagePos(tid)], tid) = call[p].new_status
                /\ \A k \in 0..3 :
                      k # tid % 4
                      => BitPair(log'[n][PagePos(tid)], k)
                           = BitPair(before[n][PagePos(tid)], k)
                /\ \A m \in 1..Len(before), i \in 0..(page_size - 1) :
                      <<m, i>> # <<n, PagePos(tid)>> => log'[m][i] = before[m][i]]_vars

\* (page, slot) a comes before b in scan order
Before(a, b) == a[1] < b[1] \/ (a[1] = b[1] /\ a[2] < b[2])

\* C31: a scan looks at the slots of pages 1..max_page_no in increasing
\* order; it yields the version at a slot exactly when is_tuple_visible
\* holds for its header, with tuple_id the slot's own (page, slot), after
\* every tuple yielded before; when it ends it has looked once at every
\* version that was stored when the iterator was created
C31_ScanYieldsVisibleInOrder ==
    [][\A p \in Procs :
         fetch_next_tuple(p)
         => LET c == call[p]
                at == <<c.curr_page_no, c.curr_slot>>
                n == Len(c.examined)
            IN  /\ (returned'.kind = "Tuple")
                      <=> (c.curr_page_no <= c.max_page_no /\ at \in Ids /\ Visible(p, at))
                /\ (returned'.kind = "Tuple"
                      => /\ returned'.id = at
                         /\ \A k \in 1..Len(c.yielded) : Before(c.yielded[k], at))
                /\ (returned'.kind = "End"
                      => /\ c.at_open \subseteq {c.examined[k] : k \in 1..n}
                         /\ \A k \in 1..n : c.examined[k][1] <= c.max_page_no
                         /\ \A j, k \in 1..n :
                               j < k => Before(c.examined[j], c.examined[k]))]_vars

\* a scan has yielded a tuple next to one it skipped and has ended
C31_Witness ==
    /\ returned.kind = "End"
    /\ \E id \in Ids : ~Visible(returned.proc, id)
    /\ \E id \in Ids : Visible(returned.proc, id) /\ At(id).tuple_id # id

\* the step is taken by thread p
StepOf(p) == pc'[p] # pc[p] \/ call'[p] # call[p] \/ returned'.proc = p

\* C32: tid 1 is never in alive_tids, and no step of a thread that holds
\* the handle returned by bootstrap() changes the log bits of tid 1
C32_BootstrapNotInLog ==
    [][/\ BOOTSTRAP_TRANSACTION_ID \notin alive_tids'
       /\ \A p \in Procs :
             (txn[p].tid = BOOTSTRAP_TRANSACTION_ID /\ StepOf(p))
             => LogBits(log', BOOTSTRAP_TRANSACTION_ID)
                  = LogBits(log, BOOTSTRAP_TRANSACTION_ID)]_vars

Captures(p) ==
    \/ StartInsert(p)
    \/ Refresh(p) /\ txn[p].isolation_level = "ReadCommitted"
                  /\ txn'[p].command_id # txn[p].command_id

\* C34: a snapshot captured by create_transaction, or by
\* refresh_transaction under ReadCommitted, contains every tid from 2 up to
\* its tid_max that was handed out and whose transaction has not entered
\* commit() or abort()
C34_SnapshotHoldsUnended ==
    [][\A p \in Procs :
         Captures(p)
         => \A t \in (Allocated \ Ending) :
              t < txn'[p].tid_max => t \in txn'[p].alive_tids]_vars

\* C35: whenever a transaction in progress could classify a version in
\* update_tuple or delete_tuple, heap_tuple_satisfies_update does not reach
\* its unreachable!() arm: the status of a foreign non-zero delete_tid
\* never reads Invalid
C35_NoUnreachableArm ==
    \A p \in Procs, id \in Ids :
        pc[p] \in {"idle", "retry"}
        => heap_tuple_satisfies_update(At(id), id, txn[p]).kind # "Panic"

\* two callers are blocked in update_tuple / delete_tuple on the version at
\* id, whose deleter has not ended
Queued(id) ==
    /\ At(id).delete_tid \in tid_locks
    /\ Cardinality({p \in Procs : /\ pc[p] \in {"waiting", "locking"}
                                  /\ call[p].target = id}) >= 2

\* no caller blocked in lock_tuple can be given the tuple lock
NeverGranted == \A p \in Procs : ~ENABLED LockGranted(p)

\* C36: when two callers are blocked on the same version, each of them
\* returns from its call in the end (the deleter they wait for ends, by the
\* fairness of the specification)
C36_QueuedCallsReturn ==
    \A p \in Procs, id \in (1..MaxQueuePages) \X (0..(PageCap - 1)) :
        (id \in Ids /\ Queued(id) /\ call[p].target = id
            /\ pc[p] \in {"waiting", "locking"})
        ~> (pc[p] \in {"idle", "panicked"})

\* C37: after a reopening next_tid is at least 2 and above every tid the
\* manager had handed out before, ended or not
C37_ReopenAboveAllocated ==
    [][Reopened =>
         /\ next_tid' >= FirstTid
         /\ \A t \in Allocated : t < next_tid']_vars

\* C38: a handle on which commit() or abort() has succeeded stays ended,
\* whatever is called on it afterwards: has_ended() is true, and no further
\* commit() or abort() gets past the match on the end state (to write the
\* log and release the self-lock again)
C38_EndedStaysEnded ==
    \A p \in Procs :
        (pc[p] # "none" /\ txn[p].tid \in committed_ok \cup aborted_ok)
        => /\ has_ended(txn[p])
           /\ ~InEnd(p)

\* the step is the return of a failed commit() / abort() of thread p that
\* had got past the match on the end state
EndFailed(p) == InEnd(p) /\ (EndGetPageFails(p) \/ EndFlushFails(p))

\* C39: a commit() or abort() that fails on the log page or on the flush
\* leaves the transaction as it was: its tid in alive_tids, its status
\* InProgress, its end state unchanged and one from which abort() goes on,
\* its self-lock held
C39_FailedEndChangesNothing ==
    [][\A p \in Procs :
         EndFailed(p)
         => /\ txn[p].tid \in alive_tids'
            /\ get_transaction_status(txn[p].tid)' = InProgress
            /\ txn'[p].end \in {"None", "ExpectedRollback"}
            /\ txn'[p].end \in EndAllowed(Aborted)
            /\ txn[p].tid \in tid_locks']_vars

\* tid d belongs to a transaction of a thread other than p that has not
\* committed: it is in progress, or inside commit() / abort() with its log
\* bits not yet written
Uncommitted(p, d) ==
    /\ d # txn[p].tid
    /\ \E q \in Procs \ {p} :
          /\ txn[q].tid = d
          /\ pc[q] \notin {"none", "starting", "ending3"}
          /\ txn[q].end \in {"None", "ExpectedRollback"}

\* C40: no dirty reads: a version inserted by another transaction that has
\* not committed is not visible to T, and a delete by another transaction
\* that has not committed does not change whether T sees the version
C40_NoDirtyReads ==
    \A p \in Procs, id \in Ids :
        Idle(p) =>
            /\ Uncommitted(p, At(id).insert_tid) => ~Visible(p, id)
            /\ Uncommitted(p, At(id).delete_tid) =>
                  (Visible(p, id) = is_tuple_visible(txn[p], At(id).insert_tid,
                                       At(id).command_id, INVALID_TRANSACTION_ID))

\* T looks at a version inserted by a transaction in progress and at a
\* version, visible to it, that a transaction in progress has deleted
C40_Witness ==
    \E p \in Procs, i \in Ids, j \in Ids :
        /\ Idle(p)
        /\ Uncommitted(p, At(i).insert_tid)
        /\ Uncommitted(p, At(j).delete_tid)
        /\ Visible(p, j)

(* ----------------------------- workloads ------------------------------ *)
IsolationLevels == {"ReadCommitted", "RepeatableRead"}

\* update_tuple calls that are waiting and will still write a version
PendingUpdates == Cardinality({p \in Procs : call[p].kind = "update"})

\* the first transaction is opened by thread 1 (the threads are alike)
FirstOpens(p) == next_tid = FirstTid => p = 1

\* room for one more version within a bound on the heap
Room(max) == VersionCount + PendingUpdates < max

\* two generations of transactions with statements: any isolation level,
\* refresh_transaction, all heap calls (no call waits: a wait takes a
\* committed inserter, a writer in progress and a third transaction)
Next ==
    \/ \E p \in Clients, i \in IsolationLevels :
          next_tid <= MaxTid /\ FirstOpens(p) /\ StartAlloc(p, i)
    \/ \E p \in Clients : StartInsert(p)
    \/ \E p \in Clients : txn[p].command_id < MaxCmd /\ Refresh(p)
    \/ \E p \in Clients, s \in {Committed, Aborted} : BeginEnd(p, s)
    \/ \E p \in Clients : EndGetPage(p)
    \/ \E p \in Clients : EndWrite(p)
    \/ \E p \in Clients : EndRelease(p, FALSE)
    \/ \E p \in Clients, z \in InsertSizes : Room(MaxVersions) /\ Insert(p, z)
    \/ \E p \in Clients, id \in Ids, z \in UpdateSizes :
          Room(MaxVersions) /\ Update(p, id, z)
    \/ \E p \in Clients, id \in Ids : Delete(p, id)
    \/ \E p \in Clients : Scan(p)

Spec == Init /\ [][Next]_vars

\* writers: transactions of the default isolation level that run one
\* statement each
NextWriters ==
    \/ \E p \in Clients :
          next_tid <= WritersMaxTid /\ FirstOpens(p) /\ StartAlloc(p, "ReadCommitted")
    \/ \E p \in Clients : StartInsert(p)
    \/ \E p \in Clients, s \in {Committed, Aborted} : BeginEnd(p, s)
    \/ \E p \in Clients : EndGetPage(p)
    \/ \E p \in Clients : EndWrite(p)
    \/ \E p \in Clients : EndRelease(p, FALSE)
    \/ \E p \in Clients, z \in InsertSizes : Room(WritersMaxVersions) /\ Insert(p, z)
    \/ \E p \in Clients, id \in Ids, z \in UpdateSizes :
          Room(WritersMaxVersions) /\ Update(p, id, z)
    \/ \E p \in Clients, id \in Ids : Delete(p, id)
    \/ \E p \in Clients : WaitEnd(p)
    \/ \E p \in Clients : Retry(p)
    \/ \E p \in Clients : Scan(p)

SpecWriters == Init /\ [][NextWriters]_vars

\* snapshots: three generations of RepeatableRead transactions with
\* statements, which insert and scan
NextSnapshots ==
    \/ \E p \in Clients :
          next_tid <= SnapshotsMaxTid /\ FirstOpens(p) /\ StartAlloc(p, "RepeatableRead")
    \/ \E p \in Clients : StartInsert(p)
    \/ \E p \in Clients : txn[p].command_id < MaxCmd /\ Refresh(p)
    \/ \E p \in Clients, s \in {Committed, Aborted} : BeginEnd(p, s)
    \/ \E p \in Clients : EndGetPage(p)
    \/ \E p \in Clients : EndWrite(p)
    \/ \E p \in Clients : EndRelease(p, FALSE)
    \/ \E p \in Clients, z \in InsertSizes : Room(SnapshotsMaxVersions) /\ Insert(p, z)
    \/ \E p \in Clients : Scan(p)

SpecSnapshots == Init /\ [][NextSnapshots]_vars

\* log: six generations of transactions, the even tids opened by thread 1
\* and the odd ones by thread 2, which insert and scan
NextLog ==
    \/ \E p \in Clients :
          /\ next_tid <= LogMaxTid
          /\ p = 1 + (next_tid % 2)
          /\ StartAlloc(p, "ReadCommitted")
    \/ \E p \in Clients : StartInsert(p)
    \/ \E p \in Clients, s \in {Committed, Aborted} : BeginEnd(p, s)
    \/ \E p \in Clients : EndGetPage(p)
    \/ \E p \in Clients : EndWrite(p)
    \/ \E p \in Clients : EndRelease(p, FALSE)
    \/ \E p \in Clients, z \in InsertSizes : Room(LogMaxVersions) /\ Insert(p, z)
    \/ \E p \in Clients : Scan(p)

SpecLog == Init /\ [][NextLog]_vars

\* waiters: three threads take turns in opening ReadCommitted transactions
\* of one statement; thread 3 inserts in its first transaction, scans
\* in its second and commits, threads 1 and 2 delete and commit or abort
NextWaiters ==
    \/ \E p \in Procs :
          /\ next_tid <= WaitersMaxTid
          /\ p = 1 + (next_tid % 3)
          /\ StartAlloc(p, "ReadCommitted")
    \/ \E p \in Procs : StartInsert(p)
    \/ \E p \in Clients, s \in {Committed, Aborted} : BeginEnd(p, s)
    \/ BeginEnd(3, Committed)
    \/ \E p \in Procs : EndGetPage(p)
    \/ \E p \in Procs : EndWrite(p)
    \/ \E p \in Procs : EndRelease(p, FALSE)
    \/ \E z \in InsertSizes :
          /\ Room(WaitersMaxVersions)
          /\ txn[3].tid = FirstTid
          /\ Insert(3, z)
    \/ \E p \in Clients, id \in Ids : Delete(p, id)
    \/ \E p \in Procs : WaitEnd(p)
    \/ \E p \in Procs : Retry(p)
    \/ txn[3].tid # FirstTid /\ Scan(3)

SpecWaiters == Init /\ [][NextWaiters]_vars

\* handles: two threads open ReadCommitted transactions, keep the handle
\* after commit() / abort() and call commit, abort and expect_rollback on it
\* in any end state
NextHandles ==
    \/ \E p \in Clients :
          /\ next_tid <= HandlesMaxTid
          /\ FirstOpens(p)
          /\ StartAlloc(p, "ReadCommitted")
    \/ \E p \in Clients : StartInsert(p)
    \/ \E p \in Clients : expect_rollback(p)
    \/ \E p \in Clients, s \in {Committed, Aborted} : BeginEnd(p, s)
    \/ \E p \in Clients : EndGetPage(p)
    \/ \E p \in Clients : EndWrite(p)
    \/ \E p \in Clients : EndRelease(p, TRUE)
    \/ \E p \in Clients : DropHandle(p)
    \/ \E p \in Clients, z \in InsertSizes :
          Idle(p) /\ Room(HandlesMaxVersions) /\ Insert(p, z)
    \/ \E p \in Clients : Scan(p)

SpecHandles == Init /\ [][NextHandles]_vars

\* a build whose log pages hold ReloadPageSize bytes
InitReload ==
    /\ page_size = ReloadPageSize
    /\ next_tid = FirstTid
    /\ alive_tids = {}
    /\ tid_locks = {}
    /\ tuple_locks = {}
    /\ log = <<>>
    /\ heap = <<>>
    /\ txn = [p \in Procs |-> NoTxn]
    /\ pc = [p \in Procs |-> "none"]
    /\ call = [p \in Procs |-> NoCall]
    /\ returned = NoReturn
    /\ committed_ok = {}
    /\ aborted_ok = {}
    /\ hist = [p \in Procs |-> NoHist]
    /\ ok_writers = {}
    /\ dirty = {}
    /\ codec = NoCodec

\* reload: one thread opens ReadCommitted transactions and ends them one
\* after the other; between two transactions the database may be reopened
NextReload ==
    \/ next_tid <= ReloadMaxTid /\ StartAlloc(1, "ReadCommitted")
    \/ StartInsert(1)
    \/ \E s \in {Committed, Aborted} : BeginEnd(1, s)
    \/ EndGetPage(1)
    \/ EndWrite(1)
    \/ EndRelease(1, FALSE)
    \/ Reopen

SpecReload == InitReload /\ [][NextReload]_vars

\* statements: thread 1 opens one transaction and refreshes it until
\* refresh_transaction fails; thread 2 opens and ends transactions meanwhile
NextStatements ==
    \/ \E p \in Clients, i \in IsolationLevels :
          /\ next_tid <= StatementsMaxTid
          /\ FirstOpens(p)
          /\ StartAlloc(p, i)
    \/ \E p \in Clients : StartInsert(p)
    \/ Refresh(1)
    \/ \E s \in {Committed, Aborted} : BeginEnd(2, s)
    \/ EndGetPage(2)
    \/ EndWrite(2)
    \/ EndRelease(2, FALSE)

SpecStatements == Init /\ [][NextStatements]_vars

\* exhaustion: two threads take turns in opening ReadCommitted transactions
\* and commit them, until start_transaction fails
NextExhaust ==
    \/ \E p \in Clients :
          /\ p = 1 + (next_tid % 2)
          /\ StartAlloc(p, "ReadCommitted")
    \/ \E p \in Clients : StartInsert(p)
    \/ \E p \in Clients : BeginEnd(p, Committed)
    \/ \E p \in Clients : EndGetPage(p)
    \/ \E p \in Clients : EndWrite(p)
    \/ \E p \in Clients : EndRelease(p, FALSE)

SpecExhaust == Init /\ [][NextExhaust]_vars

\* sizes: two threads open ReadCommitted transactions of one statement and
\* insert and update tuples of every size up to one above MAX_TUPLE_SIZE
NextSizes ==
    \/ \E p \in Clients :
          /\ next_tid <= SizesMaxTid
          /\ FirstOpens(p)
          /\ StartAlloc(p, "ReadCommitted")
    \/ \E p \in Clients : StartInsert(p)
    \/ \E p \in Clients : BeginEnd(p, Committed)
    \/ \E p \in Clients : EndGetPage(p)
    \/ \E p \in Clients : EndWrite(p)
    \/ \E p \in Clients : EndRelease(p, FALSE)
    \/ \E p \in Clients, z \in AllSizes :
          Room(SizesMaxVersions) /\ Insert(p, z)
    \/ \E p \in Clients, id \in Ids, z \in AllSizes :
          Room(SizesMaxVersions) /\ Update(p, id, z)

SpecSizes == Init /\ [][NextSizes]_vars
\* scans: writers of one statement each, and a reader that walks the table
\* tuple by tuple while they write
NextScans ==
    \/ \E p \in Procs :
          next_tid <= ScansMaxTid /\ FirstOpens(p) /\ StartAlloc(p, "ReadCommitted")
    \/ \E p \in Procs : StartInsert(p)
    \/ \E p \in Clients, s \in {Committed, Aborted} : BeginEnd(p, s)
    \/ \E p \in Clients : EndGetPage(p)
    \/ \E p \in Clients : EndWrite(p)
    \/ \E p \in Clients : EndRelease(p, FALSE)
    \/ \E p \in Clients, z \in InsertSizes : Room(ScansMaxVersions) /\ Insert(p, z)
    \/ \E p \in Clients, id \in Ids, z \in UpdateSizes :
          Room(ScansMaxVersions) /\ Update(p, id, z)
    \/ iter(3)
    \/ fetch_next_tuple(3)

SpecScans == Init /\ [][NextScans]_vars

\* bootstrap: thread 1 holds the bootstrap handle and fills the catalog
\* while thread 2 runs ordinary transactions
NextBootstrap ==
    \/ bootstrap(1)
    \/ next_tid <= BootstrapMaxTid /\ StartAlloc(2, "ReadCommitted")
    \/ StartInsert(2)
    \/ \E p \in Clients, s \in {Committed, Aborted} : BeginEnd(p, s)
    \/ \E p \in Clients : EndGetPage(p)
    \/ \E p \in Clients : EndWrite(p)
    \/ \E p \in Clients, keep \in BOOLEAN : EndRelease(p, keep)
    \/ \E p \in Clients : DropHandle(p)
    \/ \E p \in Clients, z \in InsertSizes : Room(BootstrapMaxVersions) /\ Insert(p, z)
    \/ \E p \in Clients : Scan(p)

SpecBootstrap == Init /\ [][NextBootstrap]_vars

\* headers: every header new_tuple builds for a tuple of 1..MAX_COLUMNS
\* columns with any set of NULL columns, written, parsed and written again
InitHeaders ==
    /\ page_size = PageSize
    /\ next_tid = FirstTid
    /\ alive_tids = {}
    /\ tid_locks = {}
    /\ tuple_locks = {}
    /\ log = <<>>
    /\ heap = <<>>
    /\ txn = [p \in Procs |-> NoTxn]
    /\ pc = [p \in Procs |-> "none"]
    /\ call = [p \in Procs |-> NoCall]
    /\ returned = NoReturn
    /\ committed_ok = {}
    /\ aborted_ok = {}
    /\ hist = [p \in Procs |-> NoHist]
    /\ ok_writers = {}
    /\ dirty = {}
    /\ \E c \in 1..MAX_COLUMNS :
          \E nulls \in SUBSET (0..(c - 1)),
             f \in {<<2, 0, <<1, 0>>>>, <<258, 255, <<65537, 3>>>>} :
             LET r == HeaderOfTuple(c, nulls, f[1], f[2], f[3])
             IN  /\ r.ok
                 /\ codec = [NoCodec EXCEPT !.stage = "header",
                                            !.header = r.header]

NextHeaders ==
    \/ SerializeHeader
    \/ ParseHeader
    \/ SerializeParsed

SpecHeaders == InitHeaders /\ [][NextHeaders]_vars

\* queue: thread 3 inserts a tuple and commits, then deletes it in a second
\* transaction that it ends later; meanwhile the two clients call
\* delete_tuple on the same version
\* (LockGranted is left out: NeverGranted holds, a blocked lock_tuple never
\* returns, because the holder of the tuple lock keeps it until its own call
\* returns and that takes the page guard of the blocked caller)
NextQueue ==
    \/ \E p \in Procs :
          /\ next_tid <= QueueMaxTid
          /\ (next_tid <= FirstTid + 1 <=> p = 3)
          /\ StartAlloc(p, "ReadCommitted")
    \/ \E p \in Procs : StartInsert(p)
    \/ txn[3].tid = FirstTid /\ heap = <<>> /\ Insert(3, 1)
    \/ txn[3].tid = FirstTid /\ heap # <<>> /\ BeginEnd(3, Committed)
    \/ \E s \in {Committed, Aborted} :
          txn[3].tid # FirstTid /\ 3 \in {q[2] : q \in ok_writers} /\ BeginEnd(3, s)
    \/ EndGetPage(3)
    \/ EndWrite(3)
    \/ EndRelease(3, FALSE)
    \/ \E p \in Procs, id \in Ids :
          (p = 3 => txn[3].tid # FirstTid /\ ok_writers = {}) /\ Delete(p, id)
    \/ \E p \in Clients : WaitEnd(p)
    \/ \E p \in Clients : Retry(p)

SpecQueue == Init /\ [][NextQueue]_vars

\* every thread that can take a step takes it in the end, and the deleter
\* ends its transaction
FairQueue ==
    /\ \A p \in Procs : WF_vars(StartInsert(p))
    /\ \A s \in {Committed, Aborted} : WF_vars(txn[3].tid # FirstTid /\ BeginEnd(3, s))
    /\ WF_vars(EndGetPage(3))
    /\ WF_vars(EndWrite(3))
    /\ WF_vars(EndRelease(3, FALSE))
    /\ \A p \in Clients : WF_vars(WaitEnd(p))
    /\ \A p \in Clients : WF_vars(Retry(p))

SpecQueueFair == Init /\ [][NextQueue]_vars /\ FairQueue

\* restart: as reload, but the thread may leave a transaction in progress
\* behind when the database is closed
NextRestart ==
    \/ next_tid <= RestartMaxTid /\ StartAlloc(1, "ReadCommitted")
    \/ StartInsert(1)
    \/ \E s \in {Committed, Aborted} : BeginEnd(1, s)
    \/ EndGetPage(1)
    \/ EndWrite(1)
    \/ EndRelease(1, FALSE)
    \/ Abandon(1)
    \/ Reopen

SpecRestart == InitReload /\ [][NextRestart]_vars

\* failures: transactions whose commit() / abort() may fail in the buffer
\* manager and be called again
NextFailures ==
    \/ \E p \in Clients :
          next_tid <= FailuresMaxTid /\ FirstOpens(p) /\ StartAlloc(p, "ReadCommitted")
    \/ \E p \in Clients : StartInsert(p)
    \/ \E p \in Clients, s \in {Committed, Aborted} : BeginEnd(p, s)
    \/ \E p \in Clients : EndGetPage(p)
    \/ \E p \in Clients : EndGetPageFails(p)
    \/ \E p \in Clients : EndWrite(p)
    \/ \E p \in Clients : EndFlushFails(p)
    \/ \E p \in Clients : EndRelease(p, FALSE)
    \/ \E p \in Clients, z \in InsertSizes :
          Room(FailuresMaxVersions) /\ Insert(p, z)
    \/ \E p \in Clients : Scan(p)

SpecFailures == Init /\ [][NextFailures]_vars

====
